---- MODULE Spec2Model ----
(***************************************************************************)
(* State-machine model of the DHT server of zhshw/tox                      *)
(* (src/toxcore/dht/server/mod.rs).                                        *)
(*                                                                         *)
(* Futures are modelled as they behave in futures 0.1: a future is a       *)
(* record [sends, res]; nothing is put on a channel when the future is     *)
(* built, its sends happen when it is polled, and res is what the poll     *)
(* resolves to.                                                            *)
(***************************************************************************)
EXTENDS Integers, Sequences, FiniteSets, TLC

\* ------------------------------------------------------------------------
\* Program constants (seconds)
\* ------------------------------------------------------------------------
MAX_BOOTSTRAP_TIMES == 5
NAT_PING_REQ_INTERVAL == 3
ONION_REFRESH_KEY_INTERVAL == 7200
NODES_REQ_INTERVAL == 20
PING_INTERVAL == 60
PING_TIMEOUT == 5
\* hole_punching::NAT_PING_PUNCHING_INTERVAL, used by the NAT ping code
NAT_PING_PUNCHING_INTERVAL == 3
\* dht_node staleness threshold after which an address family is bad
BAD_NODE_TIMEOUT == 122
\* NodesResponse carries at most 4 nodes
MAX_CLOSEST == 4

\* ------------------------------------------------------------------------
\* Bounds of the model
\* ------------------------------------------------------------------------
\* ping ids are drawn from 1..MaxId (0 is the reserved value)
MaxId == 2
\* number of clock advances in one behaviour
MaxAdvances == 2
\* number of inbound packets and interface calls in one behaviour
MaxOps == 2
\* number of friends the server may be given
MaxFriends == 1
\* capacity of a Bucket (Bucket::new(None))
BucketCap == 2
\* number of fresh onion keys that may be generated
MaxKeys == 2
\* number of OnionReturns remembered as being in flight
MaxWire == 2

\* the server's own DHT public key
pk == 1
\* public keys that appear in packets (the server's own among them)
PublicKeys == 1..3
\* number of bits of a public key in the model
KeyBits == 3

\* ------------------------------------------------------------------------
\* Socket addresses
\* ------------------------------------------------------------------------
NoAddr == [fam |-> "none", h |-> 0]
V4(h) == [fam |-> "v4", h |-> h]
V6(h) == [fam |-> "v6", h |-> h]
\* Ipv4Addr::to_ipv6_mapped, within SocketAddr::new(.., addr.port()): whatever
\* else the address holds is kept
to_ipv6_mapped(a) == [a EXCEPT !.fam = "v6", !.h = @ + 100]
is_ipv4(a) == a.fam = "v4"
is_ipv6(a) == a.fam = "v6"
\* addresses packets come from and nodes are listed with
SockAddrs == {V4(1), V6(2)}

None == -1
SeqToSet(s) == {s[i] : i \in 1..Len(s)}

RECURSIVE Concat(_)
Concat(ss) == IF ss = <<>> THEN <<>> ELSE Head(ss) \o Concat(Tail(ss))

\* ------------------------------------------------------------------------
\* XOR distance (PublicKey::distance, kbucket_index)
\* ------------------------------------------------------------------------
RECURSIVE xor(_, _)
xor(a, b) ==
  IF a = 0 THEN b
  ELSE IF b = 0 THEN a
  ELSE (((a % 2) + (b % 2)) % 2) + 2 * xor(a \div 2, b \div 2)

\* TRUE iff p1 is strictly closer to ref than p2
closer(ref, p1, p2) == xor(ref, p1) < xor(ref, p2)

RECURSIVE bitlen(_)
bitlen(n) == IF n = 0 THEN 0 ELSE 1 + bitlen(n \div 2)

\* index of the first bit, counted from the most significant one, in which
\* the two keys differ; None for equal keys
kbucket_index(own, p) ==
  IF own = p THEN None ELSE KeyBits - bitlen(xor(own, p))

\* ------------------------------------------------------------------------
\* PackedNode, DhtNode
\* ------------------------------------------------------------------------
PackedNode(p, a) == [pk |-> p, saddr |-> a]

\* DhtNode::new
DhtNode_new(pn, t) ==
  [pk |-> pn.pk,
   saddr_v4 |-> IF is_ipv4(pn.saddr) THEN pn.saddr ELSE NoAddr,
   saddr_v6 |-> IF is_ipv6(pn.saddr) THEN pn.saddr ELSE NoAddr,
   last_resp_time_v4 |-> t,
   last_resp_time_v6 |-> t,
   last_ping_req_time |-> None]

\* a stored entry learns a new address of the family of pn
DhtNode_update(node, pn) ==
  IF is_ipv4(pn.saddr) THEN [node EXCEPT !.saddr_v4 = pn.saddr]
  ELSE [node EXCEPT !.saddr_v6 = pn.saddr]

\* DhtNode::is_bad: neither family answered within the staleness threshold
is_bad(node, t) ==
  /\ t - node.last_resp_time_v4 > BAD_NODE_TIMEOUT
  /\ t - node.last_resp_time_v6 > BAD_NODE_TIMEOUT

\* DhtNode -> PackedNode (node.into())
into_packed(node) ==
  PackedNode(node.pk,
             IF node.saddr_v4 # NoAddr THEN node.saddr_v4 ELSE node.saddr_v6)

\* DhtNode::get_socket_addr
get_socket_addr(node, ipv6) ==
  IF ipv6 /\ node.saddr_v6 # NoAddr THEN node.saddr_v6 ELSE node.saddr_v4

\* ------------------------------------------------------------------------
\* Bucket: sequence of DhtNode in ascending distance from the reference key
\* ------------------------------------------------------------------------
InsertAt(s, i, e) == SubSeq(s, 1, i - 1) \o <<e>> \o SubSeq(s, i, Len(s))

\* position at which a key is inserted to keep the order
InsertPos(nodes, ref, p) ==
  1 + Cardinality({i \in 1..Len(nodes) : closer(ref, nodes[i].pk, p)})

\* Bucket::try_add that makes room in a full bucket for any new node
Bucket_try_add_evicts(nodes, cap, ref, pn, t) ==
  IF pn.pk = ref THEN [nodes |-> nodes, added |-> FALSE]
  ELSE IF \E i \in 1..Len(nodes) : nodes[i].pk = pn.pk
  THEN LET i == CHOOSE j \in 1..Len(nodes) : nodes[j].pk = pn.pk
       IN [nodes |-> [nodes EXCEPT ![i] = DhtNode_update(nodes[i], pn)],
           added |-> TRUE]
  ELSE LET kept == IF Len(nodes) < cap THEN nodes
                   ELSE SubSeq(nodes, 1, Len(nodes) - 1)
       IN [nodes |-> InsertAt(kept, InsertPos(kept, ref, pn.pk), DhtNode_new(pn, t)),
           added |-> TRUE]

\* Bucket::try_add: [nodes, added]
Bucket_try_add(nodes, cap, ref, pn, t) ==
  IF pn.pk = ref THEN [nodes |-> nodes, added |-> FALSE]
  ELSE IF \E i \in 1..Len(nodes) : nodes[i].pk = pn.pk
  THEN LET i == CHOOSE j \in 1..Len(nodes) : nodes[j].pk = pn.pk
       IN [nodes |-> [nodes EXCEPT ![i] = DhtNode_update(nodes[i], pn)],
           added |-> TRUE]
  ELSE IF Len(nodes) < cap
  THEN [nodes |-> InsertAt(nodes, InsertPos(nodes, ref, pn.pk), DhtNode_new(pn, t)),
        added |-> TRUE]
  ELSE IF closer(ref, pn.pk, nodes[Len(nodes)].pk)
  THEN LET kept == SubSeq(nodes, 1, Len(nodes) - 1)
       IN [nodes |-> InsertAt(kept, InsertPos(kept, ref, pn.pk), DhtNode_new(pn, t)),
           added |-> TRUE]
  ELSE [nodes |-> nodes, added |-> FALSE]

\* Bucket::to_packed
to_packed(nodes) == [i \in 1..Len(nodes) |-> into_packed(nodes[i])]

\* ------------------------------------------------------------------------
\* Kbucket: one Bucket per index of the first differing bit
\* ------------------------------------------------------------------------
Kbucket_new == [i \in 0..(KeyBits - 1) |-> <<>>]

\* Kbucket::try_add without the rejection of the own key
Kbucket_try_add_own(kb, pn, t) ==
  IF pn.pk = pk
  THEN LET kept == IF Len(kb[0]) < BucketCap THEN kb[0]
                   ELSE SubSeq(kb[0], 1, BucketCap - 1)
       IN [kb |-> [kb EXCEPT ![0] = <<DhtNode_new(pn, t)>> \o kept],
           added |-> TRUE]
  ELSE LET i == kbucket_index(pk, pn.pk)
           r == Bucket_try_add(kb[i], BucketCap, pk, pn, t)
       IN [kb |-> [kb EXCEPT ![i] = r.nodes], added |-> r.added]

\* Kbucket::try_add: [kb, added]
Kbucket_try_add(kb, pn, t) ==
  LET i == kbucket_index(pk, pn.pk)
  IN IF i = None THEN [kb |-> kb, added |-> FALSE]
     ELSE LET r == Bucket_try_add(kb[i], BucketCap, pk, pn, t)
          IN [kb |-> [kb EXCEPT ![i] = r.nodes], added |-> r.added]

\* Kbucket::iter: the entries bucket by bucket
Kbucket_iter(kb) == Concat([i \in 1..KeyBits |-> kb[i - 1]])

Kbucket_pks(kb) == {n.pk : n \in SeqToSet(Kbucket_iter(kb))}

\* Kbucket::get_node
Kbucket_contains(kb, p) == p \in Kbucket_pks(kb)
Kbucket_get_node(kb, p) ==
  CHOOSE n \in SeqToSet(Kbucket_iter(kb)) : n.pk = p

\* ------------------------------------------------------------------------
\* RequestQueue: set of [pk, id, time]
\* ------------------------------------------------------------------------
\* RequestQueue whose entries time out PING_TIMEOUT after they were issued
rq_expired_at_timeout(e, t) == t - e.time >= PING_TIMEOUT

\* an entry is timed out once it is older than the timeout
rq_expired(e, t) == t - e.time > PING_TIMEOUT

rq_live(rq, p, t) == {e \in rq : e.pk = p /\ ~rq_expired(e, t)}

\* ids that new_ping_id may return for p
rq_free_ids(rq, p, t) == {i \in 1..MaxId : \A e \in rq_live(rq, p, t) : e.id # i}

\* the non-zero random draw r is retried until it does not collide
rq_pick(rq, p, t, r) ==
  LET free == rq_free_ids(rq, p, t)
  IN IF free = {} THEN 0
     ELSE IF \E i \in free : i >= r
     THEN CHOOSE i \in free : i >= r /\ \A j \in free : j >= r => i <= j
     ELSE CHOOSE i \in free : \A j \in free : i <= j

\* RequestQueue::new_ping_id: [rq, id]
new_ping_id(rq, p, t, r) ==
  LET id == rq_pick(rq, p, t, r)
  IN [rq |-> {e \in rq : ~(e.pk = p /\ e.id = id)}
               \cup {[pk |-> p, id |-> id, time |-> t]},
      id |-> id]

\* RequestQueue::check_ping_id: [rq, ok]
check_ping_id(rq, p, id, t) ==
  IF id # 0 /\ \E e \in rq : e.pk = p /\ e.id = id /\ ~rq_expired(e, t)
  THEN [rq |-> {e \in rq : ~(e.pk = p /\ e.id = id)}, ok |-> TRUE]
  ELSE [rq |-> rq, ok |-> FALSE]

\* RequestQueue::clear_timed_out
clear_timed_out(rq, t) == {e \in rq : ~rq_expired(e, t)}


\* ------------------------------------------------------------------------
\* Onion return: the previous hop bound under a symmetric key
\* ------------------------------------------------------------------------
NoIpPort == [protocol |-> "none", saddr |-> NoAddr]
\* IpPort::from_udp_saddr, IpPort::from_tcp_saddr
from_udp_saddr(addr) == [protocol |-> "UDP", saddr |-> addr]
from_tcp_saddr(addr) == [protocol |-> "TCP", saddr |-> addr]

\* no OnionReturn (packets that carry none)
NoReturn == [key |-> None, ip_port |-> NoIpPort, inner |-> <<>>]

\* OnionReturn::new: prev is <<>> or the previous return in a sequence
OnionReturn_new(key, ip_port, prev) ==
  [key |-> key, ip_port |-> ip_port, inner |-> prev]

\* OnionReturn::get_payload: authenticated decryption under key
OnionReturn_get_payload(onion_return, key) ==
  IF onion_return.key = key
  THEN [ok |-> TRUE, ip_port |-> onion_return.ip_port,
        inner |-> onion_return.inner]
  ELSE [ok |-> FALSE, ip_port |-> NoIpPort, inner |-> <<>>]

\* a symmetric key of another node
ForeignKey == MaxKeys + 1
\* an OnionReturn made by another node of the path
ForeignReturn == OnionReturn_new(ForeignKey, NoIpPort, <<>>)

\* ------------------------------------------------------------------------
\* Packets and futures
\* ------------------------------------------------------------------------
\* (packet, destination) as put on the outbound channel; rpk is the key the
\* payload is encrypted for
Packet(kind, addr, rpk, id) ==
  [kind |-> kind, addr |-> addr, rpk |-> rpk, id |-> id, search_pk |-> None,
   nodes |-> <<>>, onion_return |-> NoReturn, payload |-> "none"]

Fut(sends, res) == [sends |-> sends, res |-> res]
\* future::ok(())
fut_ok == Fut(<<>>, "ok")
\* future::err(..)
fut_err == Fut(<<>>, "err")

\* stream::futures_unordered(futs).then(|_| Ok(())).for_each(|()| Ok(())):
\* every future is polled, errors are dropped
stream_all(futs) ==
  Fut(Concat([i \in 1..Len(futs) |-> futs[i].sends]), "ok")

RECURSIVE join_all(_)
\* future::join_all(futs): the futures are polled in order; the first error
\* ends the poll and drops the futures not polled yet
join_all(futs) ==
  IF futs = <<>> THEN fut_ok
  ELSE IF Head(futs).res = "err" THEN Fut(Head(futs).sends, "err")
  ELSE LET rest == join_all(Tail(futs))
       IN Fut(Head(futs).sends \o rest.sends, rest.res)

\* a.join(b): a is polled first, an error of a ends the poll
join(a, b) == join_all(<<a, b>>)

\* send_to without regard to the mode of the server
send_to_any_family(ipv6, addr, packet) ==
  Fut(<<[packet EXCEPT !.addr = addr]>>, "ok")

\* Server::send_to
send_to(ipv6, addr, packet) ==
  IF ipv6
  THEN IF is_ipv4(addr)
       THEN Fut(<<[packet EXCEPT !.addr = to_ipv6_mapped(addr)]>>, "ok")
       ELSE Fut(<<[packet EXCEPT !.addr = addr]>>, "ok")
  ELSE IF is_ipv6(addr) THEN fut_err
       ELSE Fut(<<[packet EXCEPT !.addr = addr]>>, "ok")

\* Server::send_nodes_req
send_nodes_req(ipv6, target_peer, search_pk, ping_id) ==
  IF pk = target_peer.pk THEN fut_err
  ELSE send_to(ipv6, target_peer.saddr,
               [Packet("NodesRequest", target_peer.saddr, target_peer.pk, ping_id)
                  EXCEPT !.search_pk = search_pk])


\* Server::send_ping_req (the id is drawn by the caller's new_ping_id)
send_ping_req(ipv6, node, ping_id) ==
  send_to(ipv6, node.saddr, Packet("PingRequest", node.saddr, node.pk, ping_id))

\* ------------------------------------------------------------------------
\* State
\* ------------------------------------------------------------------------
VARIABLES
  now,                      \* clock_now()
  advances,                 \* clock advances made so far
  ops,                      \* packets and calls handled so far
  request_queue,            \* RequestQueue
  close_nodes,              \* Kbucket of the close list
  bootstrap_nodes,          \* Bucket of candidates to ping
  friends,                  \* Vec<DhtFriend>
  onion_symmetric_key,      \* current secretbox key
  onion_symmetric_key_time, \* time the key was generated
  bootstrap_times,          \* rounds of random NodesRequest sent
  last_nodes_req_time,      \* time of the last random NodesRequest
  ping_sender,              \* PingSender: nodes waiting for a PingRequest
  is_ipv6_mode,             \* is_ipv6_mode of the handle that runs the server
  close_nodes_is_ipv6_mode, \* is_ipv6_mode of the Kbucket of the close list
  clones,                   \* is_ipv6_mode of each handle made by clone()
  onion_client,             \* onion Client: path_nodes and a call of random_path_nodes
  lan_discovery_enabled,
  tcp_onion_sink,           \* TRUE iff a TCP onion sink is set
  net_crypto,               \* TRUE iff a net crypto module is set
  tx,                       \* packets the last operation put on the UDP channel
  tcp_tx,                   \* what the last operation put on the TCP onion sink
  ret,                      \* what the last operation's future resolved to
  op,                       \* the last operation and its inputs
  tick_futs,                \* the six futures the last tick joined
  wire,                     \* OnionReturns this server has put on the wire
  path,                     \* the three-hop onion path a packet is followed on
  threads,                  \* the locks each thread holds and is about to take
  channel,                  \* every packet put on the UDP channel, oldest first
  processed,                \* every packet handle_packet was given, oldest first
  onion_announce,           \* OnionAnnounce: its key generation and its entries
  run_fut                   \* the future Server::run returned

vars == <<now, advances, ops, request_queue, close_nodes, bootstrap_nodes, friends,
          onion_symmetric_key, onion_symmetric_key_time, bootstrap_times,
          last_nodes_req_time, ping_sender, is_ipv6_mode, lan_discovery_enabled,
          tcp_onion_sink, net_crypto, tx, tcp_tx, ret, op, tick_futs, wire, path, threads, channel, processed,
          onion_announce, run_fut, close_nodes_is_ipv6_mode, clones,
          onion_client>>

\* the record of what came in and what went out, kept where order matters
trace == <<channel, processed>>

\* the finer views of the server that the handlers, taken as one step each,
\* leave alone
views == <<path, threads, onion_announce>>

\* the fields of the server other than the request queue and the node lists
\* the other handles of the server and the flag of the shared close list
handles == <<clones, close_nodes_is_ipv6_mode>>
config_vars == <<is_ipv6_mode, lan_discovery_enabled, tcp_onion_sink, net_crypto,
                 handles, onion_client>>

\* an onion Client with the given path_nodes on which nothing was called
Client_new(path_nodes) ==
  [path_nodes |-> path_nodes, nodes |-> <<>>, pc |-> "idle", drawn |-> 0,
   ret |-> "none"]
onion_vars == <<onion_symmetric_key, onion_symmetric_key_time, wire>>
random_req_vars == <<bootstrap_times, last_nodes_req_time>>

\* no packet is followed along a path
NoPath == [stage |-> 0, mode |-> <<>>, key |-> <<>>, src |-> <<>>,
           onion_return |-> NoReturn, payload |-> "none"]

\* threads that may run code of the server at the same time
Threads == 1..2
\* a thread that is not inside the server: nothing to do, nothing held
Idle == [fn |-> "none", todo |-> <<>>, held |-> <<>>]
NoThreads == [t \in Threads |-> Idle]

\* what an operation is recorded as
Op(kind, spk, id, chk) ==
  [kind |-> kind, pk |-> spk, id |-> id, chk |-> chk, addr |-> NoAddr,
   listed |-> {}, onion_return |-> NoReturn]

\* the future of Server::run before its first poll: not resolved, and the
\* parity of the wakeups of its Interval
Pending == [state |-> "pending", woke |-> 0]

\* OnionAnnounce::new: the first key generation and no entry
OnionAnnounce_new == [gen |-> 0, entries |-> <<>>]

\* one more packet or call is handled
counted == ops < MaxOps /\ ops' = ops + 1 /\ UNCHANGED <<trace, run_fut>>

\* Server::new
Init ==
  /\ now = 0
  /\ advances = 0
  /\ ops = 0
  /\ request_queue = {}
  /\ close_nodes = Kbucket_new
  /\ bootstrap_nodes = <<>>
  /\ friends = <<>>
  /\ onion_symmetric_key = 0
  /\ onion_symmetric_key_time = 0
  /\ bootstrap_times = 0
  /\ last_nodes_req_time = 0
  /\ ping_sender = <<>>
  /\ is_ipv6_mode = FALSE
  /\ lan_discovery_enabled = TRUE
  /\ close_nodes_is_ipv6_mode = is_ipv6_mode
  /\ clones = <<>>
  /\ onion_client = Client_new(<<>>)
  /\ tcp_onion_sink = FALSE
  /\ net_crypto = FALSE
  /\ tx = <<>>
  /\ tcp_tx = <<>>
  /\ ret = "ok"
  /\ op = Op("new", None, None, "none")
  /\ tick_futs = <<>>
  /\ wire = {}
  /\ path = NoPath
  /\ threads = NoThreads
  /\ channel = <<>>
  /\ processed = <<>>
  /\ onion_announce = OnionAnnounce_new
  /\ run_fut = Pending

\* ------------------------------------------------------------------------
\* The periodic loop and its sub-operations
\* ------------------------------------------------------------------------
RECURSIVE issue_all(_, _, _, _)
\* new_ping_id for each key of pks in turn: [rq, ids]
issue_all(rq, pks, t, r) ==
  IF pks = <<>> THEN [rq |-> rq, ids |-> <<>>]
  ELSE LET n == new_ping_id(rq, Head(pks), t, r)
           rest == issue_all(n.rq, Tail(pks), t, r)
       IN [rq |-> rest.rq, ids |-> <<n.id>> \o rest.ids]

pks_of(nodes) == [i \in 1..Len(nodes) |-> nodes[i].pk]

\* refresh_onion_key that waits until the interval is exceeded
refresh_onion_key_late(key, key_time, t) ==
  IF t - key_time > ONION_REFRESH_KEY_INTERVAL
  THEN [key |-> key + 1, time |-> t]
  ELSE [key |-> key, time |-> key_time]

\* Server::refresh_onion_key: [key, time]
refresh_onion_key(key, key_time, t) ==
  IF t - key_time >= ONION_REFRESH_KEY_INTERVAL
  THEN [key |-> key + 1, time |-> t]
  ELSE [key |-> key, time |-> key_time]

\* ping_bootstrap_nodes that leaves the candidates in the bucket
ping_bootstrap_nodes_keeps_bucket(bn, rq, ipv6, t, r) ==
  LET nodes == to_packed(bn)
      iss == issue_all(rq, pks_of(nodes), t, r)
  IN [bootstrap_nodes |-> bn,
      rq |-> iss.rq,
      fut |-> stream_all([i \in 1..Len(nodes) |->
                 send_nodes_req(ipv6, nodes[i], pk, iss.ids[i])])]

\* Server::ping_bootstrap_nodes: [bootstrap_nodes, rq, fut]
ping_bootstrap_nodes(bn, rq, ipv6, t, r) ==
  LET nodes == to_packed(bn)
      iss == issue_all(rq, pks_of(nodes), t, r)
  IN [bootstrap_nodes |-> <<>>,
      rq |-> iss.rq,
      fut |-> stream_all([i \in 1..Len(nodes) |->
                 send_nodes_req(ipv6, nodes[i], pk, iss.ids[i])])]

\* the filter letting an entry through once it is older than the interval
ping_due_after_interval(node, t) ==
  \/ node.last_ping_req_time = None
  \/ t - node.last_ping_req_time > PING_INTERVAL

\* the filter of ping_and_get_close_nodes
ping_due(node, t) ==
  \/ node.last_ping_req_time = None
  \/ t - node.last_ping_req_time >= PING_INTERVAL

\* Server::ping_and_get_close_nodes: [close_nodes, rq, fut]
ping_and_get_close_nodes(kb, rq, ipv6, t, r) ==
  LET due(n) == ping_due(n, t)
      nodes == to_packed(SelectSeq(Kbucket_iter(kb), due))
      iss == issue_all(rq, pks_of(nodes), t, r)
  IN [close_nodes |-> [i \in DOMAIN kb |-> [j \in 1..Len(kb[i]) |->
                         IF ping_due(kb[i][j], t)
                         THEN [kb[i][j] EXCEPT !.last_ping_req_time = t]
                         ELSE kb[i][j]]],
      rq |-> iss.rq,
      fut |-> stream_all([i \in 1..Len(nodes) |->
                 send_nodes_req(ipv6, nodes[i], pk, iss.ids[i])])]

\* the index send_nodes_req_random draws from two random numbers
random_index(len, rnd1, rnd2) ==
  LET random_node == rnd1 % len
  IN IF random_node # 0 THEN random_node - (rnd2 % (random_node + 1))
     ELSE random_node

\* send_nodes_req_random that stops for good after the bootstrap rounds
send_nodes_req_random_rounds_only(kb, rq, bt, lnrt, ipv6, t, r, rnd1, rnd2) ==
  IF bt >= MAX_BOOTSTRAP_TIMES
  THEN [rq |-> rq, bootstrap_times |-> bt, last_nodes_req_time |-> lnrt,
        fut |-> fut_ok]
  ELSE LET good(n) == ~is_bad(n, t)
           good_nodes == to_packed(SelectSeq(Kbucket_iter(kb), good))
       IN IF good_nodes # <<>>
          THEN LET random_node ==
                     good_nodes[1 + random_index(Len(good_nodes), rnd1, rnd2)]
                   n == new_ping_id(rq, random_node.pk, t, r)
               IN [rq |-> n.rq, bootstrap_times |-> bt + 1,
                   last_nodes_req_time |-> t,
                   fut |-> send_nodes_req(ipv6, random_node, pk, n.id)]
          ELSE [rq |-> rq, bootstrap_times |-> bt,
                last_nodes_req_time |-> lnrt, fut |-> fut_ok]

\* Server::send_nodes_req_random: [rq, bootstrap_times, last_nodes_req_time, fut]
send_nodes_req_random(kb, rq, bt, lnrt, ipv6, t, r, rnd1, rnd2) ==
  IF t - lnrt < NODES_REQ_INTERVAL /\ bt >= MAX_BOOTSTRAP_TIMES
  THEN [rq |-> rq, bootstrap_times |-> bt, last_nodes_req_time |-> lnrt,
        fut |-> fut_ok]
  ELSE LET good(n) == ~is_bad(n, t)
           good_nodes == to_packed(SelectSeq(Kbucket_iter(kb), good))
       IN IF good_nodes # <<>>
          THEN LET random_node ==
                     good_nodes[1 + random_index(Len(good_nodes), rnd1, rnd2)]
                   n == new_ping_id(rq, random_node.pk, t, r)
               IN [rq |-> n.rq, bootstrap_times |-> bt + 1,
                   last_nodes_req_time |-> t,
                   fut |-> send_nodes_req(ipv6, random_node, pk, n.id)]
          ELSE [rq |-> rq, bootstrap_times |-> bt,
                last_nodes_req_time |-> lnrt, fut |-> fut_ok]


\* ------------------------------------------------------------------------
\* DhtFriend, HolePunch, PingSender
\* ------------------------------------------------------------------------
is_hole_punching_enabled == TRUE

\* HolePunch::new (ping_id is a gen_ping_id draw)
HolePunch_new(id, t) ==
  [ping_id |-> id, last_send_ping_time |-> None, last_recv_ping_time |-> t,
   is_punching_done |-> TRUE]

\* DhtFriend::new
DhtFriend_new(fpk, id, t) ==
  [pk |-> fpk, close_nodes |-> <<>>, hole_punch |-> HolePunch_new(id, t)]

\* DhtFriend::add_to_close
add_to_close(friend, pn, t) ==
  [friend EXCEPT
     !.close_nodes = Bucket_try_add(@, BucketCap, friend.pk, pn, t).nodes]

\* DhtFriend::send_nodes_req_packets: [friend, rq, fut]
send_nodes_req_packets(friend, rq, ipv6, t, r) ==
  LET due(n) == ping_due(n, t)
      nodes == to_packed(SelectSeq(friend.close_nodes, due))
      iss == issue_all(rq, pks_of(nodes), t, r)
  IN [friend |-> [friend EXCEPT !.close_nodes =
                    [j \in 1..Len(@) |->
                       IF ping_due(@[j], t)
                       THEN [@[j] EXCEPT !.last_ping_req_time = t]
                       ELSE @[j]]],
      rq |-> iss.rq,
      fut |-> stream_all([i \in 1..Len(nodes) |->
                 send_nodes_req(ipv6, nodes[i], friend.pk, iss.ids[i])])]

RECURSIVE friends_nodes_req(_, _, _, _, _)
\* the closure of send_nodes_req_to_friends over the friends in order
friends_nodes_req(fs, rq, ipv6, t, r) ==
  IF fs = <<>> THEN [friends |-> <<>>, rq |-> rq, futs |-> <<>>]
  ELSE LET h == send_nodes_req_packets(Head(fs), rq, ipv6, t, r)
           rest == friends_nodes_req(Tail(fs), h.rq, ipv6, t, r)
       IN [friends |-> <<h.friend>> \o rest.friends,
           rq |-> rest.rq,
           futs |-> <<h.fut>> \o rest.futs]

\* Server::send_nodes_req_to_friends: [friends, rq, fut]
send_nodes_req_to_friends(fs, rq, ipv6, t, r) ==
  LET x == friends_nodes_req(fs, rq, ipv6, t, r)
  IN [friends |-> x.friends, rq |-> x.rq, fut |-> stream_all(x.futs)]

\* DhtFriend::get_addrs_of_clients
get_addrs_of_clients(friend, ipv6) ==
  {get_socket_addr(n, ipv6) : n \in SeqToSet(friend.close_nodes)} \ {NoAddr}

\* HolePunch::try_nat_punch: a round of punching is made when one is due,
\* and the round gets a ping id of its own (r is the draw of gen_ping_id)
try_nat_punch(hp, addrs, r) ==
  IF is_hole_punching_enabled /\ ~hp.is_punching_done /\ addrs # {}
  THEN [hp EXCEPT !.is_punching_done = TRUE, !.ping_id = r]
  ELSE hp

\* the filter of send_nat_ping_req
nat_ping_due(hp, t) ==
  \/ hp.last_send_ping_time = None
  \/ t - hp.last_send_ping_time >= NAT_PING_PUNCHING_INTERVAL

\* Server::send_nat_ping_req_inner
send_nat_ping_req_inner(friend, ipv6, packet) ==
  LET hasaddr(n) == get_socket_addr(n, ipv6) # NoAddr
      nodes == SelectSeq(friend.close_nodes, hasaddr)
  IN stream_all([i \in 1..Len(nodes) |->
        send_to(ipv6, get_socket_addr(nodes[i], ipv6), packet)])

\* the closure of send_nat_ping_req for one friend: [friend, fut]
nat_ping_friend(friend, ipv6, t, r) ==
  LET hp == try_nat_punch(friend.hole_punch, get_addrs_of_clients(friend, ipv6), r)
      packet == [Packet("DhtRequest", NoAddr, friend.pk, hp.ping_id)
                   EXCEPT !.payload = "NatPingRequest"]
      punched == [friend EXCEPT !.hole_punch = hp]
  IN IF nat_ping_due(hp, t)
     THEN [friend |-> [punched EXCEPT !.hole_punch.last_send_ping_time = t],
           fut |-> send_nat_ping_req_inner(punched, ipv6, packet)]
     ELSE [friend |-> punched, fut |-> fut_ok]

\* Server::send_nat_ping_req: [friends, fut]
send_nat_ping_req(fs, ipv6, t, r) ==
  IF fs = <<>> THEN [friends |-> fs, fut |-> fut_ok]
  ELSE [friends |-> [i \in 1..Len(fs) |-> nat_ping_friend(fs[i], ipv6, t, r).friend],
        fut |-> stream_all([i \in 1..Len(fs) |->
                   nat_ping_friend(fs[i], ipv6, t, r).fut])]

\* Kbucket::can_add
can_add(kb, pn) ==
  LET i == kbucket_index(pk, pn.pk)
  IN /\ i # None
     /\ ~Kbucket_contains(kb, pn.pk)
     /\ \/ Len(kb[i]) < BucketCap
        \/ closer(pk, pn.pk, kb[i][Len(kb[i])].pk)

\* PingSender::try_add: [ping_sender, fut]
PingSender_try_add(ps, kb, pn) ==
  IF can_add(kb, pn)
  THEN LET asnodes == [i \in 1..Len(ps) |-> DhtNode_new(ps[i], 0)]
       IN [ping_sender |->
             to_packed(Bucket_try_add(asnodes, BucketCap, pk, pn, 0).nodes),
           fut |-> fut_ok]
  ELSE [ping_sender |-> ps, fut |-> fut_ok]

\* PingSender::send_pings: [ping_sender, rq, fut]
send_pings(ps, rq, ipv6, t, r) ==
  LET iss == issue_all(rq, pks_of(ps), t, r)
  IN [ping_sender |-> <<>>,
      rq |-> iss.rq,
      fut |-> stream_all([i \in 1..Len(ps) |->
                 send_ping_req(ipv6, ps[i], iss.ids[i])])]

\* Server::dht_main_loop
dht_main_loop(r, rnd1, rnd2) ==
  \E rq0 \in {clear_timed_out(request_queue, now)},
     key \in {refresh_onion_key(onion_symmetric_key, onion_symmetric_key_time, now)} :
  \E s1 \in {ping_bootstrap_nodes(bootstrap_nodes, rq0, is_ipv6_mode, now, r)} :
  \E s2 \in {ping_and_get_close_nodes(close_nodes, s1.rq, is_ipv6_mode, now, r)} :
  \E s3 \in {send_nodes_req_random(s2.close_nodes, s2.rq, bootstrap_times,
                                   last_nodes_req_time, is_ipv6_mode, now, r,
                                   rnd1, rnd2)} :
  \E s4 \in {send_nodes_req_to_friends(friends, s3.rq, is_ipv6_mode, now, r)} :
  \E s5 \in {send_pings(ping_sender, s4.rq, is_ipv6_mode, now, r)} :
  \E s6 \in {send_nat_ping_req(s4.friends, is_ipv6_mode, now, r)} :
  \E futs \in {<<s1.fut, s2.fut, s3.fut, s4.fut, s5.fut, s6.fut>>} :
  \E res \in {join_all(futs)} :
     \* every new_ping_id found an id that is free
     /\ \A e \in s5.rq : e.id # 0
     /\ key.key <= MaxKeys
     /\ s3.bootstrap_times <= MAX_BOOTSTRAP_TIMES + 1
     /\ request_queue' = s5.rq
     /\ onion_symmetric_key' = key.key
     /\ onion_symmetric_key_time' = key.time
     /\ bootstrap_nodes' = s1.bootstrap_nodes
     /\ close_nodes' = s2.close_nodes
     /\ bootstrap_times' = s3.bootstrap_times
     /\ last_nodes_req_time' = s3.last_nodes_req_time
     /\ friends' = s6.friends
     /\ ping_sender' = s5.ping_sender
     /\ tx' = res.sends
     /\ tcp_tx' = <<>>
     /\ ret' = res.res
     /\ op' = Op("tick", None, None, "none")
     /\ tick_futs' = futs
     /\ UNCHANGED <<now, advances, ops, config_vars, wire, views>>

\* the random numbers a tick draws
RandomU32 == 0..1

Tick == \E r \in 1..MaxId, rnd1 \in RandomU32, rnd2 \in RandomU32 :
          dht_main_loop(r, rnd1, rnd2) /\ UNCHANGED <<trace, run_fut>>

\* time passes
Delays == {PING_TIMEOUT}

\* nothing is sent while the clock advances
quiet ==
  /\ tx' = <<>>
  /\ tcp_tx' = <<>>
  /\ tick_futs' = <<>>

AdvanceClock(d) ==
  /\ advances < MaxAdvances
  /\ now' = now + d
  /\ advances' = advances + 1
  /\ op' = Op("clock", None, None, "none")
  /\ ret' = "ok"
  /\ quiet
  /\ UNCHANGED <<ops, request_queue, close_nodes, bootstrap_nodes, friends,
                 onion_vars, random_req_vars, ping_sender, config_vars, views,
                 trace, run_fut>>


\* ------------------------------------------------------------------------
\* Packet handlers.  dec tells whether the payload decrypts under the
\* server's secret key (get_payload is Ok).
\* ------------------------------------------------------------------------
Ids == 0..MaxId

\* what a handler leaves alone unless it says otherwise
handler_frame == <<now, advances, config_vars, onion_vars, random_req_vars,
                   views>>

\* the handler's future is polled to completion by the caller
resolve(fut) ==
  /\ tx' = fut.sends
  /\ tcp_tx' = <<>>
  /\ tick_futs' = <<>>
  /\ ret' = fut.res

\* a packet whose payload does not decrypt, dropped without an error
undecryptable_dropped(kind) ==
  /\ op' = Op(kind, None, None, "undecryptable")
  /\ resolve(fut_ok)

\* a packet whose payload does not decrypt: get_payload is Err
undecryptable(kind) ==
  /\ op' = Op(kind, None, None, "undecryptable")
  /\ resolve(fut_err)

\* handle_ping_req that answers with an id of its own
handle_ping_req_own_id(spk, id, addr, dec) ==
  /\ IF ~dec
     THEN /\ undecryptable("PingRequest")
          /\ UNCHANGED ping_sender
     ELSE LET ping_resp == Packet("PingResponse", addr, spk, 1)
              added == PingSender_try_add(ping_sender, close_nodes,
                                          PackedNode(spk, addr))
          IN /\ op' = [Op("PingRequest", spk, id, "none") EXCEPT !.addr = addr]
             /\ ping_sender' = added.ping_sender
             /\ resolve(join(added.fut, send_to(is_ipv6_mode, addr, ping_resp)))
  /\ UNCHANGED <<request_queue, close_nodes, bootstrap_nodes, friends,
                 handler_frame>>

\* handle_ping_req once the payload is open; added is what
\* ping_sender.try_add returned
ping_req_answered(spk, id, addr, added) ==
  LET ping_resp == Packet("PingResponse", addr, spk, id)
  IN /\ op' = [Op("PingRequest", spk, id, "none") EXCEPT !.addr = addr]
     /\ ping_sender' = added.ping_sender
     /\ resolve(join(added.fut, send_to(is_ipv6_mode, addr, ping_resp)))

\* Server::handle_ping_req
handle_ping_req(spk, id, addr, dec) ==
  /\ IF ~dec
     THEN /\ undecryptable("PingRequest")
          /\ UNCHANGED ping_sender
     ELSE ping_req_answered(spk, id, addr,
            PingSender_try_add(ping_sender, close_nodes, PackedNode(spk, addr)))
  /\ UNCHANGED <<request_queue, close_nodes, bootstrap_nodes, friends,
                 handler_frame>>

\* the entry of spk with the response time of the family of addr set to t
resp_time_set(kb, spk, addr, t) ==
  [i \in DOMAIN kb |-> [j \in 1..Len(kb[i]) |->
     IF kb[i][j].pk # spk THEN kb[i][j]
     ELSE IF is_ipv4(addr) THEN [kb[i][j] EXCEPT !.last_resp_time_v4 = t]
     ELSE [kb[i][j] EXCEPT !.last_resp_time_v6 = t]]]

\* handle_ping_resp that leaves the checked id in the queue
handle_ping_resp_keeps_id(spk, id, addr, dec) ==
  IF ~dec
  THEN /\ undecryptable("PingResponse")
       /\ UNCHANGED <<request_queue, close_nodes, bootstrap_nodes, friends,
                      ping_sender, handler_frame>>
  ELSE IF id = 0
  THEN /\ op' = Op("PingResponse", spk, id, "none")
       /\ resolve(fut_err)
       /\ UNCHANGED <<request_queue, close_nodes, bootstrap_nodes, friends,
                      ping_sender, handler_frame>>
  ELSE LET chk == check_ping_id(request_queue, spk, id, now)
       IN /\ op' = Op("PingResponse", spk, id, IF chk.ok THEN "true" ELSE "false")
          /\ IF chk.ok /\ Kbucket_contains(close_nodes, spk)
             THEN /\ close_nodes' = resp_time_set(close_nodes, spk, addr, now)
                  /\ resolve(fut_ok)
             ELSE /\ UNCHANGED close_nodes
                  /\ resolve(fut_err)
          /\ UNCHANGED <<request_queue, bootstrap_nodes, friends, ping_sender,
                         handler_frame>>

\* handle_ping_resp that adds a sender it does not know to the close list
handle_ping_resp_try_add(spk, id, addr, dec) ==
  IF ~dec
  THEN /\ undecryptable("PingResponse")
       /\ UNCHANGED <<request_queue, close_nodes, bootstrap_nodes, friends,
                      ping_sender, handler_frame>>
  ELSE IF id = 0
  THEN /\ op' = Op("PingResponse", spk, id, "none")
       /\ resolve(fut_err)
       /\ UNCHANGED <<request_queue, close_nodes, bootstrap_nodes, friends,
                      ping_sender, handler_frame>>
  ELSE LET chk == check_ping_id(request_queue, spk, id, now)
       IN /\ op' = Op("PingResponse", spk, id, IF chk.ok THEN "true" ELSE "false")
                    @@ [from |-> addr]
          /\ request_queue' = chk.rq
          /\ IF chk.ok /\ Kbucket_contains(close_nodes, spk)
             THEN /\ close_nodes' = resp_time_set(close_nodes, spk, addr, now)
                  /\ resolve(fut_ok)
             ELSE IF chk.ok
             THEN /\ close_nodes' =
                       Kbucket_try_add(close_nodes, PackedNode(spk, addr), now).kb
                  /\ resolve(fut_ok)
             ELSE /\ UNCHANGED close_nodes
                  /\ resolve(fut_err)
          /\ UNCHANGED <<bootstrap_nodes, friends, ping_sender, handler_frame>>

\* Server::handle_ping_resp
handle_ping_resp(spk, id, addr, dec) ==
  IF ~dec
  THEN /\ undecryptable("PingResponse")
       /\ UNCHANGED <<request_queue, close_nodes, bootstrap_nodes, friends,
                      ping_sender, handler_frame>>
  ELSE IF id = 0
  THEN /\ op' = Op("PingResponse", spk, id, "none")
       /\ resolve(fut_err)
       /\ UNCHANGED <<request_queue, close_nodes, bootstrap_nodes, friends,
                      ping_sender, handler_frame>>
  ELSE LET chk == check_ping_id(request_queue, spk, id, now)
       IN /\ op' = Op("PingResponse", spk, id, IF chk.ok THEN "true" ELSE "false")
                    @@ [from |-> addr]
          /\ request_queue' = chk.rq
          /\ IF chk.ok /\ Kbucket_contains(close_nodes, spk)
             THEN /\ close_nodes' = resp_time_set(close_nodes, spk, addr, now)
                  /\ resolve(fut_ok)
             ELSE /\ UNCHANGED close_nodes
                  /\ resolve(fut_err)
          /\ UNCHANGED <<bootstrap_nodes, friends, ping_sender, handler_frame>>

RECURSIVE offer_nodes(_, _, _, _, _)
\* the loop of handle_nodes_resp over the nodes of the payload:
\* [close_nodes, bootstrap_nodes, friends]
offer_nodes(nodes, kb, bn, fs, t) ==
  IF nodes = <<>>
  THEN [close_nodes |-> kb, bootstrap_nodes |-> bn, friends |-> fs]
  ELSE LET node == Head(nodes)
       IN offer_nodes(Tail(nodes),
                      Kbucket_try_add(kb, node, t).kb,
                      Bucket_try_add(bn, BucketCap, pk, node, t).nodes,
                      [i \in 1..Len(fs) |-> add_to_close(fs[i], node, t)],
                      t)

\* handle_nodes_resp that offers the nodes whatever the check says
handle_nodes_resp_unchecked(spk, id, nodes, dec) ==
  IF ~dec
  THEN /\ undecryptable("NodesResponse")
       /\ UNCHANGED <<request_queue, close_nodes, bootstrap_nodes, friends,
                      ping_sender, handler_frame>>
  ELSE LET chk == check_ping_id(request_queue, spk, id, now)
           new == offer_nodes(nodes, close_nodes, bootstrap_nodes, friends, now)
       IN /\ op' = Op("NodesResponse", spk, id, IF chk.ok THEN "true" ELSE "false")
          /\ request_queue' = chk.rq
          /\ close_nodes' = new.close_nodes
          /\ bootstrap_nodes' = new.bootstrap_nodes
          /\ friends' = new.friends
          /\ IF chk.ok THEN resolve(fut_ok) ELSE resolve(fut_err)
          /\ UNCHANGED <<ping_sender, handler_frame>>

\* handle_nodes_resp that succeeds only if the nodes changed a bucket
handle_nodes_resp_inserted_only(spk, id, nodes, dec) ==
  IF ~dec
  THEN /\ undecryptable("NodesResponse")
       /\ UNCHANGED <<request_queue, close_nodes, bootstrap_nodes, friends,
                      ping_sender, handler_frame>>
  ELSE LET chk == check_ping_id(request_queue, spk, id, now)
           new == offer_nodes(nodes, close_nodes, bootstrap_nodes, friends, now)
       IN /\ op' = [Op("NodesResponse", spk, id, IF chk.ok THEN "true" ELSE "false")
                      EXCEPT !.listed = IF chk.ok THEN {n.pk : n \in SeqToSet(nodes)}
                                        ELSE {}]
          /\ request_queue' = chk.rq
          /\ IF chk.ok
             THEN /\ close_nodes' = new.close_nodes
                  /\ bootstrap_nodes' = new.bootstrap_nodes
                  /\ friends' = new.friends
                  /\ IF new = [close_nodes |-> close_nodes,
                               bootstrap_nodes |-> bootstrap_nodes,
                               friends |-> friends]
                     THEN resolve(fut_err) ELSE resolve(fut_ok)
             ELSE /\ UNCHANGED <<close_nodes, bootstrap_nodes, friends>>
                  /\ resolve(fut_err)
          /\ UNCHANGED <<ping_sender, handler_frame>>

\* Server::handle_nodes_resp
handle_nodes_resp(spk, id, nodes, dec) ==
  IF ~dec
  THEN /\ undecryptable("NodesResponse")
       /\ UNCHANGED <<request_queue, close_nodes, bootstrap_nodes, friends,
                      ping_sender, handler_frame>>
  ELSE LET chk == check_ping_id(request_queue, spk, id, now)
           new == offer_nodes(nodes, close_nodes, bootstrap_nodes, friends, now)
       IN /\ op' = [Op("NodesResponse", spk, id, IF chk.ok THEN "true" ELSE "false")
                      EXCEPT !.listed = IF chk.ok THEN {n.pk : n \in SeqToSet(nodes)}
                                        ELSE {}]
          /\ request_queue' = chk.rq
          /\ IF chk.ok
             THEN /\ close_nodes' = new.close_nodes
                  /\ bootstrap_nodes' = new.bootstrap_nodes
                  /\ friends' = new.friends
                  /\ resolve(fut_ok)
             ELSE /\ UNCHANGED <<close_nodes, bootstrap_nodes, friends>>
                  /\ resolve(fut_err)
          /\ UNCHANGED <<ping_sender, handler_frame>>

\* handle_lan_discovery without the test of lan_discovery_enabled
handle_lan_discovery_always(spk, addr, r) ==
  /\ op' = [Op("LanDiscovery", spk, None, "none") EXCEPT !.addr = addr]
  /\ IF spk = pk
     THEN /\ resolve(fut_ok)
          /\ UNCHANGED request_queue
     ELSE LET n == new_ping_id(request_queue, spk, now, r)
          IN /\ n.id # 0
             /\ request_queue' = n.rq
             /\ resolve(send_nodes_req(is_ipv6_mode, PackedNode(spk, addr), pk, n.id))
  /\ UNCHANGED <<close_nodes, bootstrap_nodes, friends, ping_sender,
                 handler_frame>>

\* Server::handle_lan_discovery (r is the random draw of new_ping_id)
handle_lan_discovery(spk, addr, r) ==
  /\ op' = [Op("LanDiscovery", spk, None, "none") EXCEPT !.addr = addr]
  /\ IF ~lan_discovery_enabled \/ spk = pk
     THEN /\ resolve(fut_ok)
          /\ UNCHANGED request_queue
     ELSE LET n == new_ping_id(request_queue, spk, now, r)
          IN /\ n.id # 0
             /\ request_queue' = n.rq
             /\ resolve(send_nodes_req(is_ipv6_mode, PackedNode(spk, addr), pk, n.id))
  /\ UNCHANGED <<close_nodes, bootstrap_nodes, friends, ping_sender,
                 handler_frame>>


\* IsGlobal::is_global (host 1 is the loopback address)
is_global(a) == a.h # 1

RECURSIVE sort_by_distance(_, _)
\* the packed nodes of a set, nearest to target first
sort_by_distance(S, target) ==
  IF S = {} THEN <<>>
  ELSE LET m == CHOOSE x \in S :
                  \A y \in S : xor(target, x.pk) <= xor(target, y.pk)
       IN <<m>> \o sort_by_distance(S \ {m}, target)

\* the address a close-list entry is reported with, NoAddr when the filter
\* leaves none
reported_addr(node, only_global) ==
  LET usable(a) == a # NoAddr /\ (only_global => is_global(a))
  IN IF usable(node.saddr_v4) THEN node.saddr_v4
     ELSE IF usable(node.saddr_v6) THEN node.saddr_v6
     ELSE NoAddr

\* Kbucket::get_closest
get_closest(kb, target, only_global) ==
  LET cand == {PackedNode(n.pk, reported_addr(n, only_global)) :
                 n \in {m \in SeqToSet(Kbucket_iter(kb)) :
                          reported_addr(m, only_global) # NoAddr}}
      sorted == sort_by_distance(cand, target)
  IN SubSeq(sorted, 1, IF Len(sorted) < MAX_CLOSEST THEN Len(sorted)
                       ELSE MAX_CLOSEST)

RECURSIVE try_add_all(_, _, _, _, _)
\* Bucket::try_add of each packed node of a sequence in turn
try_add_all(bucket, cap, ref, pns, t) ==
  IF pns = <<>> THEN bucket
  ELSE try_add_all(Bucket_try_add(bucket, cap, ref, Head(pns), t).nodes,
                   cap, ref, Tail(pns), t)

\* the nodes handle_nodes_req would answer with if the collecting bucket had the
\* default capacity of 8 (Bucket::new(None)) and not Some(4)
collected_nodes_default_capacity(kb, fs, search_pk, addr, t) ==
  LET closest == get_closest(kb, search_pk, is_global(addr))
      of_friends == Concat([i \in 1..Len(fs) |-> to_packed(fs[i].close_nodes)])
  IN to_packed(try_add_all(<<>>, 8, search_pk, closest \o of_friends, t))

\* the nodes handle_nodes_req answers with
collected_nodes(kb, fs, search_pk, addr, t) ==
  LET closest == get_closest(kb, search_pk, is_global(addr))
      of_friends == Concat([i \in 1..Len(fs) |-> to_packed(fs[i].close_nodes)])
  IN to_packed(try_add_all(<<>>, MAX_CLOSEST, search_pk,
                           closest \o of_friends, t))

\* handle_nodes_req once the payload is open; added is what
\* ping_sender.try_add returned
nodes_req_answered(spk, search_pk, id, addr, added) ==
  LET nodes_resp ==
        [Packet("NodesResponse", addr, spk, id) EXCEPT
           !.nodes = collected_nodes(close_nodes, friends, search_pk,
                                     addr, now)]
  IN /\ op' = [Op("NodesRequest", spk, id, "none") EXCEPT !.addr = addr]
     /\ ping_sender' = added.ping_sender
     /\ resolve(join(added.fut, send_to(is_ipv6_mode, addr, nodes_resp)))

\* Server::handle_nodes_req
handle_nodes_req(spk, search_pk, id, addr, dec) ==
  /\ IF ~dec
     THEN /\ undecryptable("NodesRequest")
          /\ UNCHANGED ping_sender
     ELSE nodes_req_answered(spk, search_pk, id, addr,
            PingSender_try_add(ping_sender, close_nodes, PackedNode(spk, addr)))
  /\ UNCHANGED <<request_queue, close_nodes, bootstrap_nodes, friends,
                 handler_frame>>

\* Server::handle_nat_ping_req
handle_nat_ping_req(id, spk, addr) ==
  send_to(is_ipv6_mode, addr,
          [Packet("DhtRequest", addr, spk, id) EXCEPT !.payload = "NatPingResponse"])

\* index of the first friend with the given key, 0 when there is none
find_friend(fs, spk) ==
  IF \E i \in 1..Len(fs) : fs[i].pk = spk
  THEN CHOOSE i \in 1..Len(fs) :
         fs[i].pk = spk /\ \A j \in 1..(i - 1) : fs[j].pk # spk
  ELSE 0

\* handle_nat_ping_resp that takes the id 0 for an answer
handle_nat_ping_resp_zero_ok(fs, id, spk, t) ==
  LET i == find_friend(fs, spk)
  IN IF i = 0 THEN [friends |-> fs, fut |-> fut_err]
     ELSE IF id = 0 THEN [friends |-> fs, fut |-> fut_ok]
     ELSE IF /\ t - fs[i].hole_punch.last_recv_ping_time < NAT_PING_PUNCHING_INTERVAL
             /\ fs[i].hole_punch.ping_id = id
     THEN [friends |-> [fs EXCEPT ![i].hole_punch.is_punching_done = FALSE],
           fut |-> fut_ok]
     ELSE [friends |-> fs, fut |-> fut_err]

\* handle_nat_ping_resp that never lets a NAT ping time out
handle_nat_ping_resp_any_age(fs, id, spk, t) ==
  LET i == find_friend(fs, spk)
  IN IF i = 0 THEN [friends |-> fs, fut |-> fut_err]
     ELSE IF id = 0 THEN [friends |-> fs, fut |-> fut_err]
     ELSE IF fs[i].hole_punch.ping_id = id
     THEN [friends |-> [fs EXCEPT ![i].hole_punch.is_punching_done = FALSE],
           fut |-> fut_ok]
     ELSE [friends |-> fs, fut |-> fut_err]

\* Server::handle_nat_ping_resp: [friends, fut]
handle_nat_ping_resp(fs, id, spk, t) ==
  LET i == find_friend(fs, spk)
  IN IF i = 0 THEN [friends |-> fs, fut |-> fut_err]
     ELSE IF id = 0 THEN [friends |-> fs, fut |-> fut_err]
     ELSE IF /\ t - fs[i].hole_punch.last_recv_ping_time < NAT_PING_PUNCHING_INTERVAL
             /\ fs[i].hole_punch.ping_id = id
     THEN [friends |-> [fs EXCEPT ![i].hole_punch.is_punching_done = FALSE],
           fut |-> fut_ok]
     ELSE [friends |-> fs, fut |-> fut_err]

DhtRequestPayloads == {"NatPingRequest", "NatPingResponse", "DhtPkAnnounce"}

\* Server::handle_dht_req.  A request for another key is relayed as it came:
\* the server cannot read its payload
handle_dht_req(rpk, spk, payload, id, addr, dec) ==
  /\ IF rpk = pk
     THEN IF ~dec
          THEN undecryptable("DhtRequest") /\ UNCHANGED friends
          ELSE IF payload = "NatPingRequest"
          THEN /\ op' = [Op(payload, spk, id, "none") EXCEPT !.addr = addr]
               /\ resolve(handle_nat_ping_req(id, spk, addr))
               /\ UNCHANGED friends
          ELSE IF payload = "NatPingResponse"
          THEN LET x == handle_nat_ping_resp(friends, id, spk, now)
               IN /\ op' = Op(payload, spk, id,
                              IF find_friend(friends, spk) = 0 THEN "nofriend"
                              ELSE IF x.fut.res = "ok" THEN "true" ELSE "false")
                  /\ resolve(x.fut)
                  /\ friends' = x.friends
          ELSE /\ op' = Op(payload, spk, None, "none")
               /\ resolve(fut_ok)
               /\ UNCHANGED friends
     ELSE /\ UNCHANGED friends
          /\ op' = Op("DhtRequest", None, None, "relayed")
          /\ IF Kbucket_contains(close_nodes, rpk)
             THEN LET to == get_socket_addr(Kbucket_get_node(close_nodes, rpk),
                                            is_ipv6_mode)
                  IN IF to # NoAddr
                     THEN resolve(send_to(is_ipv6_mode, to,
                            [Packet("DhtRequest", to, rpk, None)
                               EXCEPT !.payload = "sealed"]))
                     ELSE resolve(fut_ok)
             ELSE resolve(fut_ok)
  /\ UNCHANGED <<request_queue, close_nodes, bootstrap_nodes, ping_sender,
                 handler_frame>>

NetCryptoKinds == {"CookieRequest", "CookieResponse", "CryptoHandshake"}

\* Server::handle_cookie_request, handle_cookie_response,
\* handle_crypto_handshake: res is what the net crypto module answers
handle_net_crypto(kind, res) ==
  /\ op' = Op(kind, None, None, "none")
  /\ IF net_crypto THEN resolve(Fut(<<>>, res)) ELSE resolve(fut_err)
  /\ UNCHANGED <<request_queue, close_nodes, bootstrap_nodes, friends,
                 ping_sender, handler_frame>>

\* Server::handle_bootstrap_info
handle_bootstrap_info(addr) ==
  /\ op' = [Op("BootstrapInfo", None, None, "none") EXCEPT !.addr = addr]
  /\ resolve(send_to(is_ipv6_mode, addr, Packet("BootstrapInfo", addr, None, 0)))
  /\ UNCHANGED <<request_queue, close_nodes, bootstrap_nodes, friends,
                 ping_sender, handler_frame>>

\* kinds of DhtPacket that handle_packet has no handler for
UnhandledKinds == {"OnionAnnounceResponse", "OnionDataResponse", "CryptoData"}

\* a last arm that swallows the packet
handle_unhandled_ok(kind) ==
  /\ op' = Op(kind, None, None, "none")
  /\ resolve(fut_ok)
  /\ UNCHANGED <<request_queue, close_nodes, bootstrap_nodes, friends,
                 ping_sender, handler_frame>>

\* the last arm of the match of handle_packet
handle_unhandled(kind) ==
  /\ op' = Op(kind, None, None, "none")
  /\ resolve(fut_err)
  /\ UNCHANGED <<request_queue, close_nodes, bootstrap_nodes, friends,
                 ping_sender, handler_frame>>

\* ------------------------------------------------------------------------
\* Onion forwarding
\* ------------------------------------------------------------------------
onion_frame == <<now, advances, request_queue, close_nodes, bootstrap_nodes,
                 friends, ping_sender, config_vars, random_req_vars,
                 onion_symmetric_key, onion_symmetric_key_time, views>>

\* the handler's future is polled; onion_return went out iff the send did
forwarded(fut, onion_return) ==
  /\ resolve(fut)
  /\ wire' = IF fut.res = "ok" THEN wire \cup {onion_return} ELSE wire
  /\ Cardinality(wire') <= MaxWire

\* onion_request that binds the address the packet goes to, not the one it
\* came from
onion_request_binds_dest(kind, next_kind, inner, prev, addr, dest, dec) ==
  /\ IF ~dec
     THEN undecryptable(kind) /\ UNCHANGED wire
     ELSE LET onion_return == OnionReturn_new(onion_symmetric_key,
                                              from_udp_saddr(dest), prev)
              next_packet == [Packet(next_kind, dest, None, None) EXCEPT
                                !.onion_return = onion_return,
                                !.payload = inner]
          IN /\ op' = [Op(kind, None, None, "none") EXCEPT !.addr = addr]
             /\ forwarded(send_to(is_ipv6_mode, dest, next_packet), onion_return)
  /\ UNCHANGED onion_frame

\* the common body of handle_onion_request_0/1/2: dest is payload.ip_port
onion_request(kind, next_kind, inner, prev, addr, dest, dec) ==
  /\ IF ~dec
     THEN undecryptable(kind) /\ UNCHANGED wire
     ELSE LET onion_return == OnionReturn_new(onion_symmetric_key,
                                              from_udp_saddr(addr), prev)
              next_packet == [Packet(next_kind, dest, None, None) EXCEPT
                                !.onion_return = onion_return,
                                !.payload = inner]
          IN /\ op' = [Op(kind, None, None, "none") EXCEPT !.addr = addr]
             /\ forwarded(send_to(is_ipv6_mode, dest, next_packet), onion_return)
  /\ UNCHANGED onion_frame

\* Server::handle_onion_request_0
handle_onion_request_0(addr, dest, dec) ==
  onion_request("OnionRequest0", "OnionRequest1", "inner", <<>>, addr, dest, dec)

\* Server::handle_onion_request_1
handle_onion_request_1(onion_return, addr, dest, dec) ==
  onion_request("OnionRequest1", "OnionRequest2", "inner", <<onion_return>>,
                addr, dest, dec)

\* the packet handle_onion_request_2 makes of payload.inner
InnerOnionRequests == {"OnionAnnounceRequest", "OnionDataRequest"}

\* Server::handle_onion_request_2
handle_onion_request_2(onion_return, inner, addr, dest, dec) ==
  onion_request("OnionRequest2", inner, "inner", <<onion_return>>, addr, dest, dec)

\* onion_response that also opens returns made under the previous key
onion_response_prev_key(kind, next_kind, onion_return, payload) ==
  LET cur == OnionReturn_get_payload(onion_return, onion_symmetric_key)
      p == IF cur.ok THEN cur
           ELSE OnionReturn_get_payload(onion_return, onion_symmetric_key - 1)
  IN /\ op' = [Op(kind, None, None, IF p.ok THEN "true" ELSE "false")
                 EXCEPT !.onion_return = onion_return]
               @@ [payload |-> payload]
     /\ IF ~p.ok THEN resolve(fut_err)
        ELSE IF p.inner # <<>>
        THEN resolve(send_to(is_ipv6_mode, p.ip_port.saddr,
                       [Packet(next_kind, p.ip_port.saddr, None, None) EXCEPT
                          !.onion_return = p.inner[1], !.payload = payload]))
        ELSE resolve(fut_err)
     /\ UNCHANGED <<wire, onion_frame>>

\* onion_response that opens a return under whatever key it was made with
onion_response_any_key(kind, next_kind, onion_return, payload) ==
  LET p == OnionReturn_get_payload(onion_return, onion_return.key)
  IN /\ op' = [Op(kind, None, None, IF p.ok THEN "true" ELSE "false")
                 EXCEPT !.onion_return = onion_return]
               @@ [payload |-> payload]
     /\ IF ~p.ok THEN resolve(fut_err)
        ELSE IF p.inner # <<>>
        THEN resolve(send_to(is_ipv6_mode, p.ip_port.saddr,
                       [Packet(next_kind, p.ip_port.saddr, None, None) EXCEPT
                          !.onion_return = p.inner[1], !.payload = payload]))
        ELSE resolve(fut_err)
     /\ UNCHANGED <<wire, onion_frame>>

\* onion_response that forwards whatever the shape of the opened return
onion_response_any_shape(kind, next_kind, onion_return, payload) ==
  LET p == OnionReturn_get_payload(onion_return, onion_symmetric_key)
  IN /\ op' = [Op(kind, None, None, IF p.ok THEN "true" ELSE "false")
                 EXCEPT !.onion_return = onion_return]
               @@ [payload |-> payload]
     /\ IF ~p.ok THEN resolve(fut_err)
        ELSE resolve(send_to(is_ipv6_mode, p.ip_port.saddr,
                       [Packet(next_kind, p.ip_port.saddr, None, None) EXCEPT
                          !.onion_return = IF p.inner # <<>> THEN p.inner[1]
                                           ELSE NoReturn,
                          !.payload = payload]))
     /\ UNCHANGED <<wire, onion_frame>>

\* the common body of handle_onion_response_3/2
onion_response(kind, next_kind, onion_return, payload) ==
  LET p == OnionReturn_get_payload(onion_return, onion_symmetric_key)
  IN /\ op' = [Op(kind, None, None, IF p.ok THEN "true" ELSE "false")
                 EXCEPT !.onion_return = onion_return]
               @@ [payload |-> payload]
     /\ IF ~p.ok THEN resolve(fut_err)
        ELSE IF p.inner # <<>>
        THEN resolve(send_to(is_ipv6_mode, p.ip_port.saddr,
                       [Packet(next_kind, p.ip_port.saddr, None, None) EXCEPT
                          !.onion_return = p.inner[1], !.payload = payload]))
        ELSE resolve(fut_err)
     /\ UNCHANGED <<wire, onion_frame>>

\* ------------------------------------------------------------------------
\* OnionAnnounce: the key generation of its ping ids and its entries, the
\* most recently announced last
\* ------------------------------------------------------------------------
\* number of entries the announce table holds
MaxAnnounce == 2
\* the ping id of the first request of an announcer: valid for nobody
initial_ping_id == [gen |-> None, addr |-> NoAddr, pk |-> None]
\* the ping id of an announcer at an address under a key generation
announce_ping_id(gen, addr, p) == [gen |-> gen, addr |-> addr, pk |-> p]
\* the ping ids the table accepts: the current one and its predecessor
valid_ping_ids(oa, addr, p) ==
  {announce_ping_id(g, addr, p) : g \in {oa.gen, oa.gen - 1} \cap Nat}

\* the entry of an announcer is stored or refreshed; the least recently
\* announced entry makes room in a full table
announce_add_entry(entries, e) ==
  LET other(x) == x.pk # e.pk
      others == SelectSeq(entries, other)
      kept == IF Len(others) < MaxAnnounce THEN others ELSE Tail(others)
  IN Append(kept, e)

\* OnionAnnounce::handle_onion_announce_request: [oa, ok, response]
announce_request(oa, spk, ping_id, data_pk, sendback_data, nodes, addr, dec) ==
  LET current == announce_ping_id(oa.gen, addr, spk)
      valid == ping_id \in valid_ping_ids(oa, addr, spk)
      response == [sendback_data |-> sendback_data,
                   announce_status |-> IF valid THEN "announced" ELSE "failed",
                   ping_id_or_pk |-> current,
                   nodes |-> nodes]
  IN IF ~dec THEN [oa |-> oa, ok |-> FALSE, response |-> None]
     ELSE [oa |-> IF valid
                  THEN [oa EXCEPT !.entries =
                          announce_add_entry(@, [pk |-> spk, addr |-> addr,
                                                 data_pk |-> data_pk])]
                  ELSE oa,
           ok |-> TRUE,
           response |-> response]

\* the OnionResponse3 that carries an OnionAnnounceResponse
announce_response_packet(addr, onion_return, response) ==
  [Packet("OnionResponse3", addr, None, None) EXCEPT
     !.onion_return = onion_return, !.payload = "OnionAnnounceResponse"]
    @@ [response |-> response]

\* what handle_onion_announce_request leaves alone
announce_frame ==
  <<now, advances, request_queue, close_nodes, bootstrap_nodes, friends,
    ping_sender, config_vars, onion_vars, random_req_vars, path, threads>>

\* handle_onion_announce_request answering with an OnionReturn of its own
handle_onion_announce_request_own_return(spk, ping_id, search_pk, data_pk, sendback_data, onion_return, addr, dec) ==
  LET x == announce_request(onion_announce, spk, ping_id, data_pk, sendback_data,
                            get_closest(close_nodes, search_pk, is_global(addr)),
                            addr, dec)
  IN /\ op' = [Op("OnionAnnounceRequest", spk, sendback_data,
                  IF x.ok THEN "none" ELSE "undecryptable")
                 EXCEPT !.addr = addr, !.onion_return = onion_return]
                @@ [ping_id |-> ping_id]
     /\ onion_announce' = x.oa
     /\ IF x.ok
        THEN resolve(send_to(is_ipv6_mode, addr,
                             announce_response_packet(addr, NoReturn, x.response)))
        ELSE resolve(fut_err)
     /\ UNCHANGED announce_frame

\* Server::handle_onion_announce_request
handle_onion_announce_request(spk, ping_id, search_pk, data_pk, sendback_data, onion_return, addr, dec) ==
  LET x == announce_request(onion_announce, spk, ping_id, data_pk, sendback_data,
                            get_closest(close_nodes, search_pk, is_global(addr)),
                            addr, dec)
  IN /\ op' = [Op("OnionAnnounceRequest", spk, sendback_data,
                  IF x.ok THEN "none" ELSE "undecryptable")
                 EXCEPT !.addr = addr, !.onion_return = onion_return]
                @@ [ping_id |-> ping_id]
     /\ onion_announce' = x.oa
     /\ IF x.ok
        THEN resolve(send_to(is_ipv6_mode, addr,
                             announce_response_packet(addr, onion_return,
                                                      x.response)))
        ELSE resolve(fut_err)
     /\ UNCHANGED announce_frame

\* the key of the announce table's ping ids is renewed
rotate_ping_id_key ==
  /\ onion_announce.gen < MaxKeys
  /\ onion_announce' = [onion_announce EXCEPT !.gen = @ + 1]
  /\ op' = Op("rotate_ping_id_key", None, None, "none")
  /\ ret' = "ok"
  /\ quiet
  /\ UNCHANGED <<ops, trace, run_fut, announce_frame>>

\* Server::handle_onion_response_3
handle_onion_response_3(onion_return, payload) ==
  onion_response("OnionResponse3", "OnionResponse2", onion_return, payload)

\* Server::handle_onion_response_2
handle_onion_response_2(onion_return, payload) ==
  onion_response("OnionResponse2", "OnionResponse1", onion_return, payload)

InnerOnionResponses == {"OnionAnnounceResponse", "OnionDataResponse"}

\* handle_onion_response_1 ignoring the protocol of the recovered IpPort
handle_onion_response_1_udp_only(onion_return, payload) ==
  LET p == OnionReturn_get_payload(onion_return, onion_symmetric_key)
  IN /\ op' = [Op("OnionResponse1", None, None, IF p.ok THEN "true" ELSE "false")
                 EXCEPT !.onion_return = onion_return]
     /\ IF ~p.ok THEN resolve(fut_err)
        ELSE IF p.inner = <<>>
        THEN resolve(send_to(is_ipv6_mode, p.ip_port.saddr,
                       Packet(payload, p.ip_port.saddr, None, None)))
        ELSE resolve(fut_err)
     /\ UNCHANGED <<wire, onion_frame>>

\* Server::handle_onion_response_1
handle_onion_response_1(onion_return, payload) ==
  LET p == OnionReturn_get_payload(onion_return, onion_symmetric_key)
  IN /\ op' = [Op("OnionResponse1", None, None, IF p.ok THEN "true" ELSE "false")
                 EXCEPT !.onion_return = onion_return]
     /\ IF ~p.ok THEN resolve(fut_err)
        ELSE IF p.inner = <<>>
        THEN IF p.ip_port.protocol = "UDP"
             THEN resolve(send_to(is_ipv6_mode, p.ip_port.saddr,
                            Packet(payload, p.ip_port.saddr, None, None)))
             ELSE IF tcp_onion_sink
             THEN /\ tx' = <<>>
                  /\ tcp_tx' = <<[payload |-> payload, addr |-> p.ip_port.saddr]>>
                  /\ tick_futs' = <<>>
                  /\ ret' = "ok"
             ELSE resolve(fut_err)
        ELSE resolve(fut_err)
     /\ UNCHANGED <<wire, onion_frame>>

\* Server::handle_tcp_onion_request: dest is packet.ip_port
handle_tcp_onion_request(addr, dest) ==
  LET onion_return == OnionReturn_new(onion_symmetric_key,
                                      from_tcp_saddr(addr), <<>>)
      next_packet == [Packet("OnionRequest1", dest, None, None) EXCEPT
                        !.onion_return = onion_return, !.payload = "inner"]
  IN /\ op' = [Op("handle_tcp_onion_request", None, None, "none")
                 EXCEPT !.addr = addr]
     /\ forwarded(send_to(is_ipv6_mode, dest, next_packet), onion_return)
     /\ UNCHANGED onion_frame

\* Server::set_tcp_onion_sink
set_tcp_onion_sink ==
  /\ counted
  /\ tcp_onion_sink' = TRUE
  /\ op' = Op("set_tcp_onion_sink", None, None, "none")
  /\ quiet
  /\ ret' = "ok"
  /\ UNCHANGED <<now, advances, request_queue, close_nodes, bootstrap_nodes,
                 friends, ping_sender, is_ipv6_mode, lan_discovery_enabled,
                 net_crypto, handles, onion_client, onion_vars, random_req_vars,
                 views>>

\* ------------------------------------------------------------------------
\* Mutators of the public interface
\* ------------------------------------------------------------------------
api_frame == <<now, advances, onion_vars, random_req_vars, views>>

\* Server::try_add_to_close_nodes
try_add_to_close_nodes(pn) ==
  LET added == Kbucket_try_add(close_nodes, pn, now)
  IN /\ counted
     /\ close_nodes' = added.kb
     /\ op' = Op("try_add_to_close_nodes", pn.pk, None, "none")
     /\ quiet
     /\ ret' = IF added.added THEN "true" ELSE "false"
     /\ UNCHANGED <<request_queue, bootstrap_nodes, friends, ping_sender,
                    config_vars, api_frame>>

\* Server::add_friend with DhtFriend::new(fpk, 0)
add_friend(fpk, id) ==
  /\ counted
  /\ Len(friends) < MaxFriends
  /\ friends' = Append(friends, DhtFriend_new(fpk, id, now))
  /\ op' = Op("add_friend", fpk, id, "none")
  /\ quiet
  /\ ret' = "ok"
  /\ UNCHANGED <<request_queue, close_nodes, bootstrap_nodes, ping_sender,
                 config_vars, api_frame>>

\* Server::enable_ipv6_mode
enable_ipv6_mode(enable) ==
  /\ counted
  /\ is_ipv6_mode' = enable
  /\ close_nodes_is_ipv6_mode' = enable
  /\ op' = Op("enable_ipv6_mode", None, None, "none")
  /\ quiet
  /\ ret' = "ok"
  /\ UNCHANGED <<request_queue, close_nodes, bootstrap_nodes, friends,
                 ping_sender, lan_discovery_enabled, tcp_onion_sink, net_crypto,
                 clones, onion_client, api_frame>>


\* Server::enable_lan_discovery
enable_lan_discovery(enable) ==
  /\ counted
  /\ lan_discovery_enabled' = enable
  /\ op' = Op("enable_lan_discovery", None, None, "none")
  /\ quiet
  /\ ret' = "ok"
  /\ UNCHANGED <<request_queue, close_nodes, bootstrap_nodes, friends,
                 ping_sender, is_ipv6_mode, tcp_onion_sink, net_crypto,
                 handles, onion_client, api_frame>>

\* ------------------------------------------------------------------------
\* Inputs and the next-state relation
\* ------------------------------------------------------------------------
\* nodes listed in one NodesResponse
MaxRespNodes == 1

PackedNodes == {PackedNode(p, a) : p \in PublicKeys, a \in SockAddrs}
NodeLists == UNION {[1..k -> PackedNodes] : k \in 0..MaxRespNodes}

\* Server::handle_packet for the packets of the DHT
handle_packet ==
  \/ counted /\ \E spk \in PublicKeys, id \in Ids, addr \in SockAddrs, dec \in BOOLEAN :
       handle_ping_req(spk, id, addr, dec)
  \/ counted /\ \E spk \in PublicKeys, id \in Ids, addr \in SockAddrs, dec \in BOOLEAN :
       handle_ping_resp(spk, id, addr, dec)
  \/ counted /\ \E spk \in PublicKeys, search_pk \in PublicKeys, id \in Ids,
        addr \in SockAddrs, dec \in BOOLEAN :
       handle_nodes_req(spk, search_pk, id, addr, dec)
  \/ counted /\ \E spk \in PublicKeys, id \in Ids, nodes \in NodeLists, dec \in BOOLEAN :
       handle_nodes_resp(spk, id, nodes, dec)
  \/ counted /\ \E rpk \in PublicKeys, spk \in PublicKeys, payload \in DhtRequestPayloads,
        id \in Ids, addr \in SockAddrs, dec \in BOOLEAN :
       handle_dht_req(rpk, spk, payload, id, addr, dec)
  \/ counted /\ \E spk \in PublicKeys, addr \in SockAddrs, r \in 1..MaxId :
       handle_lan_discovery(spk, addr, r)
  \/ counted /\ \E kind \in NetCryptoKinds, res \in {"ok", "err"} :
       handle_net_crypto(kind, res)
  \/ counted /\ \E addr \in SockAddrs : handle_bootstrap_info(addr)
  \/ counted /\ \E kind \in UnhandledKinds : handle_unhandled(kind)

Next ==
  \/ Tick
  \/ \E d \in Delays : AdvanceClock(d)
  \/ handle_packet
  \/ \E pn \in PackedNodes : try_add_to_close_nodes(pn)
  \/ \E fpk \in PublicKeys, id \in 1..MaxId : add_friend(fpk, id)
  \/ \E enable \in BOOLEAN : enable_ipv6_mode(enable)

Spec == Init /\ [][Next]_vars

\* ------------------------------------------------------------------------
\* Ping ids drawn by gen_ping_id
\* ------------------------------------------------------------------------
\* number of draws of random_u64 it takes at most to get a non-zero one
MaxDraws == 2
\* the draws of random_u64 during one call of gen_ping_id: the call returns
\* at the first draw that is not 0
Draws ==
  {d \in UNION {[1..k -> 0..MaxId] : k \in 1..MaxDraws} :
     d[Len(d)] # 0 /\ \A i \in 1..(Len(d) - 1) : d[i] = 0}

\* gen_ping_id returning its first draw
gen_ping_id_first_draw(d) == Head(d)

RECURSIVE gen_ping_id(_)
\* utils::gen_ping_id
gen_ping_id(d) == IF Head(d) # 0 THEN Head(d) ELSE gen_ping_id(Tail(d))

\* gen_ping_id is called
call_gen_ping_id(d) ==
  /\ counted
  /\ op' = [Op("gen_ping_id", None, gen_ping_id(d), "none")
              EXCEPT !.listed = {d[1]}]
  /\ ret' = "ok"
  /\ quiet
  /\ UNCHANGED <<request_queue, close_nodes, bootstrap_nodes, friends,
                 ping_sender, config_vars, api_frame>>

\* the DHT server drawing its ping ids with gen_ping_id
NextIds ==
  \/ \E d \in Draws : call_gen_ping_id(d)
  \/ \E d \in Draws, rnd1 \in RandomU32, rnd2 \in RandomU32 :
       dht_main_loop(gen_ping_id(d), rnd1, rnd2) /\ UNCHANGED <<trace, run_fut>>
  \/ counted /\ \E spk \in PublicKeys, addr \in SockAddrs, d \in Draws :
       handle_lan_discovery(spk, addr, gen_ping_id(d))
  \/ counted /\ \E spk \in PublicKeys, id \in Ids, addr \in SockAddrs, dec \in BOOLEAN :
       handle_ping_req(spk, id, addr, dec)
  \/ counted /\ \E spk \in PublicKeys, id \in Ids, nodes \in NodeLists, dec \in BOOLEAN :
       handle_nodes_resp(spk, id, nodes, dec)
  \/ \E d \in Delays : AdvanceClock(d)
  \/ \E pn \in PackedNodes : try_add_to_close_nodes(pn)
  \/ \E fpk \in PublicKeys, id \in 1..MaxId : add_friend(fpk, id)

SpecIds == Init /\ [][NextIds]_vars

\* the DHT server whose handling of LanDiscovery may be switched off
NextLan ==
  \/ Next
  \/ \E enable \in BOOLEAN : enable_lan_discovery(enable)

SpecLan == Init /\ [][NextLan]_vars

\* ------------------------------------------------------------------------
\* The onion forwarder across key rotations
\* ------------------------------------------------------------------------
\* OnionReturns a packet may carry: those this server made, or another's
Returns == wire \cup {ForeignReturn}

\* Server::handle_packet for the onion packets
handle_onion_packet ==
  \/ counted /\ \E addr \in SockAddrs, dest \in SockAddrs, dec \in BOOLEAN :
       handle_onion_request_0(addr, dest, dec)
  \/ counted /\ \E r \in Returns, addr \in SockAddrs, dest \in SockAddrs,
                   dec \in BOOLEAN :
       handle_onion_request_1(r, addr, dest, dec)
  \/ counted /\ \E r \in Returns, inner \in InnerOnionRequests,
                   addr \in SockAddrs, dest \in SockAddrs, dec \in BOOLEAN :
       handle_onion_request_2(r, inner, addr, dest, dec)
  \/ counted /\ \E r \in Returns, payload \in InnerOnionResponses :
       handle_onion_response_3(r, payload)
  \/ counted /\ \E r \in Returns, payload \in InnerOnionResponses :
       handle_onion_response_2(r, payload)
  \/ counted /\ \E r \in Returns, payload \in InnerOnionResponses :
       handle_onion_response_1(r, payload)

\* the clock steps around the rotation time
KeyDelays == {ONION_REFRESH_KEY_INTERVAL - 1, ONION_REFRESH_KEY_INTERVAL}

NextOnion ==
  \/ Tick
  \/ \E d \in KeyDelays : AdvanceClock(d)
  \/ handle_onion_packet
  \/ counted /\ \E addr \in SockAddrs, dest \in SockAddrs :
       handle_tcp_onion_request(addr, dest)
  \/ set_tcp_onion_sink
  \/ \E enable \in BOOLEAN : enable_ipv6_mode(enable)

SpecOnion == Init /\ [][NextOnion]_vars

\* a server after Server::new that was configured before its first packet:
\* enable_ipv6_mode and set_tcp_onion_sink were called or not
InitRelay ==
  /\ is_ipv6_mode \in BOOLEAN
  /\ tcp_onion_sink \in BOOLEAN
  /\ now = 0
  /\ advances = 0
  /\ ops = 0
  /\ request_queue = {}
  /\ close_nodes = Kbucket_new
  /\ bootstrap_nodes = <<>>
  /\ friends = <<>>
  /\ onion_symmetric_key = 0
  /\ onion_symmetric_key_time = 0
  /\ bootstrap_times = 0
  /\ last_nodes_req_time = 0
  /\ ping_sender = <<>>
  /\ lan_discovery_enabled = TRUE
  /\ close_nodes_is_ipv6_mode = is_ipv6_mode
  /\ clones = <<>>
  /\ onion_client = Client_new(<<>>)
  /\ net_crypto = FALSE
  /\ tx = <<>>
  /\ tcp_tx = <<>>
  /\ ret = "ok"
  /\ op = Op("new", None, None, "none")
  /\ tick_futs = <<>>
  /\ wire = {}
  /\ path = NoPath
  /\ threads = NoThreads
  /\ channel = <<>>
  /\ processed = <<>>
  /\ onion_announce = OnionAnnounce_new
  /\ run_fut = Pending

\* the onion forwarder of a configured server
SpecRelay == InitRelay /\ [][NextOnion]_vars

\* ------------------------------------------------------------------------
\* The announce table
\* ------------------------------------------------------------------------
\* ping ids an announcer may supply: the initial one, and those the table
\* hands out under any generation of its key
PingIds ==
  {initial_ping_id}
    \cup {announce_ping_id(g, a, p) :
            g \in 0..MaxKeys, a \in SockAddrs, p \in PublicKeys \ {pk}}
\* sendback data of the requests
SendbackData == {42, 43}
\* the key an announcer wants data packets to be encrypted for
DataKeys == {7}

NextAnnounce ==
  \/ counted /\ \E spk \in PublicKeys \ {pk}, ping_id \in PingIds,
                   search_pk \in {pk}, data_pk \in DataKeys,
                   sendback_data \in SendbackData,
                   onion_return \in {ForeignReturn, NoReturn},
                   addr \in SockAddrs, dec \in BOOLEAN :
       handle_onion_announce_request(spk, ping_id, search_pk, data_pk,
                                     sendback_data, onion_return, addr, dec)
  \/ rotate_ping_id_key
  \/ \E enable \in BOOLEAN : enable_ipv6_mode(enable)

SpecAnnounce == Init /\ [][NextAnnounce]_vars

\* ------------------------------------------------------------------------
\* A request and its response followed over a path of three servers.  The
\* server variables are those of the server the packet is at; path keeps the
\* mode and the key of the three servers and what each hop saw.
\* ------------------------------------------------------------------------
\* addresses of the originator, of the servers and of the destinations
PathAddrs == {V4(1), V4(3), V6(2), V6(4)}
\* the symmetric keys the three servers may hold
PathKeys == 0..1

\* source addresses a server sees: its socket is of the family of its mode
seen_by(ipv6) == {a \in PathAddrs : is_ipv6(a) = ipv6}

\* the server a packet is at after each delivery: out over 1, 2, 3 and back
hop == <<1, 2, 3, 3, 2, 1>>
\* the packet that is handled at each stage
StageKinds == <<"OnionRequest0", "OnionRequest1", "OnionRequest2",
                "OnionResponse3", "OnionResponse2", "OnionResponse1">>

\* three servers after Server::new, with a request at the first one
InitPath ==
  \E mode \in [1..3 -> BOOLEAN], key \in [1..3 -> PathKeys] :
  \E a \in seen_by(mode[1]) :
    /\ path = [stage |-> 1, mode |-> mode, key |-> key, src |-> <<a>>,
               onion_return |-> NoReturn, payload |-> "inner"]
    /\ onion_symmetric_key = key[1]
    /\ is_ipv6_mode = mode[1]
    /\ tcp_onion_sink \in BOOLEAN
    /\ op = Op("deliver", None, None, "none")
    /\ now = 0
    /\ advances = 0
    /\ ops = 0
    /\ request_queue = {}
    /\ close_nodes = Kbucket_new
    /\ bootstrap_nodes = <<>>
    /\ friends = <<>>
    /\ onion_symmetric_key_time = 0
    /\ bootstrap_times = 0
    /\ last_nodes_req_time = 0
    /\ ping_sender = <<>>
    /\ lan_discovery_enabled = TRUE
    /\ close_nodes_is_ipv6_mode = is_ipv6_mode
    /\ clones = <<>>
    /\ onion_client = Client_new(<<>>)
    /\ net_crypto = FALSE
    /\ tx = <<>>
    /\ tcp_tx = <<>>
    /\ ret = "ok"
    /\ tick_futs = <<>>
    /\ wire = {}
    /\ threads = NoThreads
    /\ channel = <<>>
    /\ processed = <<>>
    /\ onion_announce = OnionAnnounce_new
    /\ run_fut = Pending

\* the packet the last handler sent reaches the next server of the path (past
\* the third server it reaches its destination, which answers with the
\* OnionReturn it was given)
deliver ==
  /\ path.stage \in 1..5
  /\ op.kind = StageKinds[path.stage]
  /\ ret = "ok"
  /\ Len(tx) = 1
  /\ LET next == path.stage + 1
         srv == hop[next]
     IN \E a \in (IF next <= 3 THEN seen_by(path.mode[srv]) ELSE {NoAddr}),
           payload \in (IF next = 4 THEN InnerOnionResponses
                        ELSE {tx[1].payload}) :
          /\ path' = [path EXCEPT !.stage = next,
                                  !.src = IF next <= 3 THEN Append(@, a) ELSE @,
                                  !.onion_return = tx[1].onion_return,
                                  !.payload = payload]
          /\ onion_symmetric_key' = path.key[srv]
          /\ is_ipv6_mode' = path.mode[srv]
  /\ wire' = {}
  /\ close_nodes_is_ipv6_mode' = is_ipv6_mode'
  /\ op' = Op("deliver", None, None, "none")
  /\ ret' = "ok"
  /\ quiet
  /\ UNCHANGED <<now, advances, ops, request_queue, close_nodes,
                 bootstrap_nodes, friends, onion_symmetric_key_time,
                 random_req_vars, ping_sender, lan_discovery_enabled,
                 tcp_onion_sink, net_crypto, clones, onion_client, threads, trace,
                 onion_announce, run_fut>>

\* Server::handle_packet of the server the packet was delivered to
handle_path_packet ==
  /\ op.kind = "deliver"
  /\ UNCHANGED <<ops, trace, run_fut>>
  /\ \/ /\ path.stage = 1
        /\ \E dest \in PathAddrs :
             handle_onion_request_0(path.src[1], dest, TRUE)
     \/ /\ path.stage = 2
        /\ \E dest \in PathAddrs :
             handle_onion_request_1(path.onion_return, path.src[2], dest, TRUE)
     \/ /\ path.stage = 3
        /\ \E dest \in PathAddrs, inner \in InnerOnionRequests :
             handle_onion_request_2(path.onion_return, inner, path.src[3],
                                    dest, TRUE)
     \/ /\ path.stage = 4
        /\ handle_onion_response_3(path.onion_return, path.payload)
     \/ /\ path.stage = 5
        /\ handle_onion_response_2(path.onion_return, path.payload)
     \/ /\ path.stage = 6
        /\ handle_onion_response_1(path.onion_return, path.payload)

NextPath ==
  \/ deliver
  \/ handle_path_packet

SpecPath == InitPath /\ [][NextPath]_vars

\* ------------------------------------------------------------------------
\* The server with the record of its input and of its outbound channel.  The
\* caller polls the future of a handler to completion before it hands over
\* the next packet, and the tick's future before the next packet or tick.
\* ------------------------------------------------------------------------
\* length up to which the channel is recorded
MaxChannel == 4
\* number of clock advances while the channel is recorded
MaxOrderAdvances == 1

\* UnboundedSender::send in last-in, first-out order
channel_send_lifo(ch, sends) == sends \o ch

\* mpsc::UnboundedSender::send of each packet in turn: first in, first out
channel_send(ch, sends) == ch \o sends

\* the packets the step sent are in the channel
sent_logged ==
  /\ channel' = channel_send(channel, tx')
  /\ Len(channel') <= MaxChannel
  /\ UNCHANGED run_fut

\* Server::handle_packet, the packet and the outcome recorded
handle_packet_logged ==
  /\ ops < MaxOps
  /\ ops' = ops + 1
  /\ \/ \E spk \in PublicKeys, id \in Ids, addr \in SockAddrs, dec \in BOOLEAN :
          handle_ping_req(spk, id, addr, dec)
     \/ \E spk \in PublicKeys, id \in Ids, addr \in SockAddrs, dec \in BOOLEAN :
          handle_ping_resp(spk, id, addr, dec)
     \/ \E spk \in PublicKeys, search_pk \in PublicKeys, id \in Ids,
           addr \in SockAddrs, dec \in BOOLEAN :
          handle_nodes_req(spk, search_pk, id, addr, dec)
     \/ \E rpk \in PublicKeys, spk \in PublicKeys,
           payload \in DhtRequestPayloads, id \in Ids, addr \in SockAddrs,
           dec \in BOOLEAN :
          handle_dht_req(rpk, spk, payload, id, addr, dec)
     \/ \E spk \in PublicKeys, addr \in SockAddrs, r \in 1..MaxId :
          handle_lan_discovery(spk, addr, r)
     \/ \E addr \in SockAddrs : handle_bootstrap_info(addr)
  /\ sent_logged
  /\ processed' = Append(processed, [kind |-> op'.kind, pk |-> op'.pk,
                                      id |-> op'.id, addr |-> op'.addr,
                                      ret |-> ret'])

\* Server::dht_main_loop, what it sent recorded
TickLogged ==
  \E r \in 1..MaxId, rnd1 \in RandomU32, rnd2 \in RandomU32 :
    /\ dht_main_loop(r, rnd1, rnd2)
    /\ sent_logged
    /\ UNCHANGED processed

NextOrder ==
  \/ TickLogged
  \/ \E d \in Delays : advances < MaxOrderAdvances /\ AdvanceClock(d)
  \/ handle_packet_logged
  \/ \E pn \in PackedNodes : try_add_to_close_nodes(pn)
  \/ \E fpk \in PublicKeys, id \in 1..MaxId : add_friend(fpk, id)
  \/ \E enable \in BOOLEAN : enable_ipv6_mode(enable)

SpecOrder == Init /\ [][NextOrder]_vars

\* ------------------------------------------------------------------------
\* Locking: the RwLocks each function of the server takes and drops, in the
\* order of its statements.  A guard bound with let is dropped at the end of
\* its block, a temporary at the end of its statement.
\* ------------------------------------------------------------------------
\* lock.write(), lock.read() and the drop of the guard
W(l) == [a |-> "acq", l |-> l, w |-> TRUE]
R(l) == [a |-> "acq", l |-> l, w |-> FALSE]
D(l) == [a |-> "rel", l |-> l, w |-> FALSE]

\* the lock events of the branches of each function that takes a lock
LockPaths ==
  [enable_ipv6_mode |-> {<<W("close_nodes"), D("close_nodes")>>},
   add_friend |-> {<<W("friends"), D("friends")>>},
   dht_main_loop |-> {<<W("request_queue"), D("request_queue")>>},
   send_pings |-> {<<W("ping_sender"), D("ping_sender")>>},
   send_nodes_req_to_friends |-> {<<W("friends"), D("friends")>>},
   ping_bootstrap_nodes |->
     {<<W("bootstrap_nodes"), D("bootstrap_nodes"),
        W("request_queue"), D("request_queue")>>},
   ping_and_get_close_nodes |->
     {<<W("close_nodes"), W("request_queue"),
        D("request_queue"), D("close_nodes")>>},
   send_nodes_req_random |->
     {<<R("last_nodes_req_time"), D("last_nodes_req_time"),
        R("bootstrap_times"), D("bootstrap_times")>>,
      <<R("last_nodes_req_time"), D("last_nodes_req_time"),
        R("close_nodes"), D("close_nodes")>>,
      <<R("last_nodes_req_time"), D("last_nodes_req_time"),
        R("close_nodes"), W("request_queue"),
        W("bootstrap_times"), D("bootstrap_times"),
        W("last_nodes_req_time"), D("last_nodes_req_time"),
        D("request_queue"), D("close_nodes")>>},
   send_ping_req |-> {<<W("request_queue"), D("request_queue")>>},
   send_nat_ping_req |-> {<<W("friends"), D("friends")>>},
   handle_ping_req |-> {<<W("ping_sender"), D("ping_sender")>>},
   handle_ping_resp |->
     {<<W("request_queue"), D("request_queue")>>,
      <<W("request_queue"), W("close_nodes"),
        D("close_nodes"), D("request_queue")>>},
   handle_nodes_req |->
     {<<R("close_nodes"), R("friends"), D("friends"),
        W("ping_sender"), D("ping_sender"), D("close_nodes")>>},
   handle_nodes_resp |->
     {<<W("request_queue"), D("request_queue")>>,
      <<W("request_queue"), W("close_nodes"), W("bootstrap_nodes"),
        W("friends"), D("friends"), D("bootstrap_nodes"),
        D("close_nodes"), D("request_queue")>>},
   handle_dht_req |-> {<<R("close_nodes"), D("close_nodes")>>},
   handle_nat_ping_resp |-> {<<W("friends"), D("friends")>>},
   handle_lan_discovery |-> {<<W("request_queue"), D("request_queue")>>},
   handle_onion_request_0 |->
     {<<R("onion_symmetric_key"), D("onion_symmetric_key")>>},
   handle_onion_response_3 |->
     {<<R("onion_symmetric_key"), D("onion_symmetric_key")>>},
   handle_tcp_onion_request |->
     {<<R("onion_symmetric_key"), D("onion_symmetric_key")>>},
   handle_onion_announce_request |->
     {<<W("onion_announce"), R("close_nodes"),
        D("close_nodes"), D("onion_announce")>>},
   handle_onion_data_request |->
     {<<R("onion_announce"), D("onion_announce")>>},
   refresh_onion_key |->
     {<<R("onion_symmetric_key_time"), D("onion_symmetric_key_time")>>,
      <<R("onion_symmetric_key_time"), D("onion_symmetric_key_time"),
        W("onion_symmetric_key_time"), D("onion_symmetric_key_time"),
        W("onion_symmetric_key"), D("onion_symmetric_key")>>},
   try_add_to_close_nodes |-> {<<W("close_nodes"), D("close_nodes")>>}]

\* the variables of the server other than the threads' view of the locks
server_state ==
  <<now, advances, ops, request_queue, close_nodes, bootstrap_nodes, friends,
    onion_symmetric_key, onion_symmetric_key_time, bootstrap_times,
    last_nodes_req_time, ping_sender, is_ipv6_mode, lan_discovery_enabled,
    tcp_onion_sink, net_crypto, handles, onion_client, tx, tcp_tx, ret, op,
    tick_futs, wire,
    path, trace, onion_announce, run_fut>>

\* a thread enters a function of the server on one of its branches
enter(t, fn, branch) ==
  /\ threads[t] = Idle
  /\ threads' = [threads EXCEPT ![t] = [fn |-> fn, todo |-> branch,
                                        held |-> <<>>]]
  /\ UNCHANGED server_state

\* RwLock: a writer excludes everyone, readers exclude writers
lock_free(t, l, w) ==
  \A u \in Threads \ {t} : \A i \in 1..Len(threads[u].held) :
    threads[u].held[i].l = l => (~w /\ ~threads[u].held[i].w)

\* RwLock::write, RwLock::read: the thread waits until the lock is free
acquire(t) ==
  /\ threads[t].todo # <<>>
  /\ LET e == Head(threads[t].todo)
     IN /\ e.a = "acq"
        /\ lock_free(t, e.l, e.w)
        /\ threads' = [threads EXCEPT
                         ![t].todo = Tail(@),
                         ![t].held = Append(@, [l |-> e.l, w |-> e.w])]
  /\ UNCHANGED server_state

\* the guard goes out of scope; after the last one the function returns
release(t) ==
  /\ threads[t].todo # <<>>
  /\ LET e == Head(threads[t].todo)
         keep(h) == h.l # e.l
     IN /\ e.a = "rel"
        /\ threads' = [threads EXCEPT ![t] =
             IF Tail(threads[t].todo) = <<>> THEN Idle
             ELSE [@ EXCEPT !.todo = Tail(@),
                            !.held = SelectSeq(@, keep)]]
  /\ UNCHANGED server_state

NextLocks ==
  \/ \E t \in Threads, fn \in DOMAIN LockPaths :
       \E branch \in LockPaths[fn] : enter(t, fn, branch)
  \/ \E t \in Threads : acquire(t)
  \/ \E t \in Threads : release(t)

SpecLocks == Init /\ [][NextLocks]_vars

\* ------------------------------------------------------------------------
\* NodesRequest at a server that knows more nodes than one response carries
\* ------------------------------------------------------------------------
\* public keys of the nodes the friends' buckets are filled with
NodeKeys == 0..5
\* the friends the server was given
FriendKeys == <<2, 3>>
\* nodes the close list was offered
OfferedNodes == {PackedNode(2, V6(2)), PackedNode(3, V4(1))}

\* a friend's bucket after the nodes of S answered for it
bucket_of(ref, S) ==
  try_add_all(<<>>, BucketCap, ref, sort_by_distance(S, ref), 0)

RECURSIVE kbucket_of(_)
\* the close list after try_add_to_close_nodes of each node of a sequence
kbucket_of(pns) ==
  IF pns = <<>> THEN Kbucket_new
  ELSE Kbucket_try_add(kbucket_of(Tail(pns)), Head(pns), 0).kb

\* a server with two friends whose buckets hold any nodes, and a close list
InitNodes ==
  \E known \in SUBSET OfferedNodes :
  \E of \in [1..Len(FriendKeys) ->
               {S \in SUBSET NodeKeys : Cardinality(S) <= BucketCap}] :
    /\ close_nodes = kbucket_of(sort_by_distance(known, pk))
    /\ friends =
         [i \in 1..Len(FriendKeys) |->
            [DhtFriend_new(FriendKeys[i], 1, 0) EXCEPT
               !.close_nodes =
                  bucket_of(FriendKeys[i],
                            {PackedNode(k, V4(1)) : k \in of[i]})]]
    /\ now = 0
    /\ advances = 0
    /\ ops = 0
    /\ request_queue = {}
    /\ bootstrap_nodes = <<>>
    /\ onion_symmetric_key = 0
    /\ onion_symmetric_key_time = 0
    /\ bootstrap_times = 0
    /\ last_nodes_req_time = 0
    /\ ping_sender = <<>>
    /\ is_ipv6_mode \in BOOLEAN
    /\ lan_discovery_enabled = TRUE
    /\ close_nodes_is_ipv6_mode = is_ipv6_mode
    /\ clones = <<>>
    /\ onion_client = Client_new(<<>>)
    /\ tcp_onion_sink = FALSE
    /\ net_crypto = FALSE
    /\ tx = <<>>
    /\ tcp_tx = <<>>
    /\ ret = "ok"
    /\ op = Op("new", None, None, "none")
    /\ tick_futs = <<>>
    /\ wire = {}
    /\ path = NoPath
    /\ threads = NoThreads
    /\ channel = <<>>
    /\ processed = <<>>
    /\ onion_announce = OnionAnnounce_new
    /\ run_fut = Pending

\* Server::handle_packet for the first NodesRequest the server receives
NextNodes ==
  /\ ops = 0
  /\ counted
  /\ \E spk \in PublicKeys \ {pk}, search_pk \in NodeKeys, id \in 1..MaxId,
        addr \in SockAddrs, dec \in BOOLEAN :
       handle_nodes_req(spk, search_pk, id, addr, dec)

SpecNodes == InitNodes /\ [][NextNodes]_vars

\* ------------------------------------------------------------------------
\* Server::run: the main loop driven by an Interval
\* ------------------------------------------------------------------------
\* what a poll of the Interval stream yields once it is ready: an instant or
\* a timer error.  The stream of an Interval has no end.
Interval_poll_finite == {"instant", "err", "end"}
Interval_poll == {"instant", "err"}

\* Stream::for_each: the future after the stream yielded item and, for an
\* instant, the future of the closure resolved to res
for_each(fut, item, res) ==
  IF item = "end" THEN [fut EXCEPT !.state = "ok"]
  ELSE IF item = "err" THEN [fut EXCEPT !.state = "err"]
  ELSE [state |-> IF res = "err" THEN "err" ELSE "pending",
        woke |-> 1 - fut.woke]

\* the future of run is polled and its Interval is ready
run_poll ==
  /\ run_fut.state = "pending"
  /\ \E item \in Interval_poll :
       IF item = "instant"
       THEN /\ \E r \in 1..MaxId, rnd1 \in RandomU32, rnd2 \in RandomU32 :
                 dht_main_loop(r, rnd1, rnd2)
            /\ run_fut' = for_each(run_fut, item, ret')
            /\ UNCHANGED trace
       ELSE /\ run_fut' = for_each(run_fut, item, "ok")
            /\ op' = Op("run", None, None, item)
            /\ ret' = IF item = "err" THEN "err" ELSE "ok"
            /\ quiet
            /\ UNCHANGED <<now, advances, ops, request_queue, close_nodes,
                           bootstrap_nodes, friends, ping_sender, config_vars,
                           onion_vars, random_req_vars, views, trace>>

\* a server that was given candidates to ping, and perhaps a close node that
\* has an IPv6 address only, before run was called
InitRun ==
  \E cand \in {S \in SUBSET PackedNodes : Cardinality(S) <= BucketCap},
     close \in {<<>>} \cup {<<PackedNode(p, V6(2))>> : p \in PublicKeys \ {pk}} :
    /\ bootstrap_nodes = bucket_of(pk, cand)
    /\ close_nodes = kbucket_of(close)
    /\ now = 0
    /\ advances = 0
    /\ ops = 0
    /\ request_queue = {}
    /\ friends = <<>>
    /\ onion_symmetric_key = 0
    /\ onion_symmetric_key_time = 0
    /\ bootstrap_times = 0
    /\ last_nodes_req_time = 0
    /\ ping_sender = <<>>
    /\ is_ipv6_mode = FALSE
    /\ lan_discovery_enabled = TRUE
    /\ close_nodes_is_ipv6_mode = is_ipv6_mode
    /\ clones = <<>>
    /\ onion_client = Client_new(<<>>)
    /\ tcp_onion_sink = FALSE
    /\ net_crypto = FALSE
    /\ tx = <<>>
    /\ tcp_tx = <<>>
    /\ ret = "ok"
    /\ op = Op("new", None, None, "none")
    /\ tick_futs = <<>>
    /\ wire = {}
    /\ path = NoPath
    /\ threads = NoThreads
    /\ channel = <<>>
    /\ processed = <<>>
    /\ onion_announce = OnionAnnounce_new
    /\ run_fut = Pending

NextRun ==
  \/ run_poll
  \/ \E d \in Delays : AdvanceClock(d)

\* the executor polls the future of run whenever its Interval is ready
SpecRun == InitRun /\ [][NextRun]_vars /\ WF_vars(run_poll)

\* ------------------------------------------------------------------------
\* Responses that arrive while run drives the ticks
\* ------------------------------------------------------------------------
\* the ticks of run, the clock, and PingResponse and NodesResponse packets
\* from the peers the ticks have pinged
NextExpire ==
  \/ run_poll
  \/ \E d \in Delays : AdvanceClock(d)
  \/ counted /\ \E spk \in PublicKeys \ {pk}, id \in 1..MaxId, addr \in SockAddrs :
       handle_ping_resp(spk, id, addr, TRUE)
  \/ counted /\ \E spk \in PublicKeys \ {pk}, id \in 1..MaxId :
       handle_nodes_resp(spk, id, <<>>, TRUE)

SpecExpire == InitRun /\ [][NextExpire]_vars /\ WF_vars(run_poll)

\* ------------------------------------------------------------------------
\* Ticks over a minute: the pings of the close list
\* ------------------------------------------------------------------------
\* time passes in steps that reach PING_INTERVAL and both sides of it
PingDelays == {PING_TIMEOUT, PING_INTERVAL - PING_TIMEOUT, PING_INTERVAL}

\* nodes are put in the close list, the ticks run and a minute passes
NextPing ==
  \/ Tick
  \/ \E d \in PingDelays : AdvanceClock(d)
  \/ \E pn \in PackedNodes : try_add_to_close_nodes(pn)
  \/ \E enable \in BOOLEAN : enable_ipv6_mode(enable)

SpecPing == Init /\ [][NextPing]_vars

\* ------------------------------------------------------------------------
\* Ticks of a server that has been running: random requests and NAT pings
\* ------------------------------------------------------------------------
\* time passes in steps that cross the intervals of the tick
TickDelays == {NAT_PING_REQ_INTERVAL, NODES_REQ_INTERVAL, BAD_NODE_TIMEOUT + 1}

\* nodes the bucket of the friend was offered
FriendNodes == {PackedNode(0, V4(1)), PackedNode(0, V6(2))}

\* a server after any number of bootstrap rounds, with or without a friend
InitTicks ==
  \E known \in SUBSET OfferedNodes, of \in SUBSET FriendNodes,
     nfriends \in 0..MaxFriends,
     rounds \in {0, MAX_BOOTSTRAP_TIMES - 1, MAX_BOOTSTRAP_TIMES} :
    /\ close_nodes = kbucket_of(sort_by_distance(known, pk))
    /\ friends =
         [i \in 1..nfriends |->
            [DhtFriend_new(FriendKeys[i], 1, 0) EXCEPT
               !.close_nodes = bucket_of(FriendKeys[i], of)]]
    /\ bootstrap_times = rounds
    /\ now = 0
    /\ advances = 0
    /\ ops = 0
    /\ request_queue = {}
    /\ bootstrap_nodes = <<>>
    /\ onion_symmetric_key = 0
    /\ onion_symmetric_key_time = 0
    /\ last_nodes_req_time = 0
    /\ ping_sender = <<>>
    /\ is_ipv6_mode \in BOOLEAN
    /\ lan_discovery_enabled = TRUE
    /\ close_nodes_is_ipv6_mode = is_ipv6_mode
    /\ clones = <<>>
    /\ onion_client = Client_new(<<>>)
    /\ tcp_onion_sink = FALSE
    /\ net_crypto = FALSE
    /\ tx = <<>>
    /\ tcp_tx = <<>>
    /\ ret = "ok"
    /\ op = Op("new", None, None, "none")
    /\ tick_futs = <<>>
    /\ wire = {}
    /\ path = NoPath
    /\ threads = NoThreads
    /\ channel = <<>>
    /\ processed = <<>>
    /\ onion_announce = OnionAnnounce_new
    /\ run_fut = Pending

\* the ticks run, time passes, and nodes are put in the close list
NextTicks ==
  \/ Tick
  \/ \E d \in TickDelays : AdvanceClock(d)
  \/ ops = 0 /\ try_add_to_close_nodes(PackedNode(3, V4(1)))

SpecTicks == InitTicks /\ [][NextTicks]_vars

\* the ticks run three seconds apart and friends answer the NAT pings
NextNat ==
  \/ Tick
  \/ AdvanceClock(NAT_PING_REQ_INTERVAL)
  \/ counted /\ \E id \in 1..MaxId :
       handle_dht_req(pk, FriendKeys[1], "NatPingResponse", id, V4(1), TRUE)

SpecNat == InitTicks /\ [][NextNat]_vars

\* ------------------------------------------------------------------------
\* NodesResponse at a server that has a friend and nodes in its buckets
\* ------------------------------------------------------------------------
\* number of nodes in the NodesResponse packets of this part
MaxListed == 2
ListedNodes == UNION {[1..k -> PackedNodes] : k \in 0..MaxListed}

\* a server with one friend; its buckets hold any nodes
InitResp ==
  \E known \in SUBSET OfferedNodes,
     cand \in SUBSET {PackedNode(0, V4(1)), PackedNode(3, V4(1))},
     of \in SUBSET {0, 3} :
    /\ close_nodes = kbucket_of(sort_by_distance(known, pk))
    /\ bootstrap_nodes = bucket_of(pk, cand)
    /\ friends =
         <<[DhtFriend_new(FriendKeys[1], 1, 0) EXCEPT
              !.close_nodes =
                 bucket_of(FriendKeys[1], {PackedNode(k, V4(1)) : k \in of})]>>
    /\ now = 0
    /\ advances = 0
    /\ ops = 0
    /\ request_queue = {}
    /\ onion_symmetric_key = 0
    /\ onion_symmetric_key_time = 0
    /\ bootstrap_times = 0
    /\ last_nodes_req_time = 0
    /\ ping_sender = <<>>
    /\ is_ipv6_mode = FALSE
    /\ lan_discovery_enabled = TRUE
    /\ close_nodes_is_ipv6_mode = is_ipv6_mode
    /\ clones = <<>>
    /\ onion_client = Client_new(<<>>)
    /\ tcp_onion_sink = FALSE
    /\ net_crypto = FALSE
    /\ tx = <<>>
    /\ tcp_tx = <<>>
    /\ ret = "ok"
    /\ op = Op("new", None, None, "none")
    /\ tick_futs = <<>>
    /\ wire = {}
    /\ path = NoPath
    /\ threads = NoThreads
    /\ channel = <<>>
    /\ processed = <<>>
    /\ onion_announce = OnionAnnounce_new
    /\ run_fut = Pending

\* a peer is sent a NodesRequest, time passes, NodesResponse packets arrive
NextResp ==
  \/ counted /\ \E spk \in PublicKeys \ {pk}, r \in 1..MaxId :
       handle_lan_discovery(spk, V4(1), r)
  \/ counted /\ \E spk \in PublicKeys \ {pk}, id \in Ids, nodes \in ListedNodes,
                   dec \in BOOLEAN :
       handle_nodes_resp(spk, id, nodes, dec)
  \/ \E d \in Delays : AdvanceClock(d)

SpecResp == InitResp /\ [][NextResp]_vars

\* ------------------------------------------------------------------------
\* Handles of one server
\* ------------------------------------------------------------------------
\* number of handles made by clone()
MaxClones == 2

\* is_ipv6_mode of a handle: 0 is the handle Server::new returned
handle_is_ipv6_mode(h) == IF h = 0 THEN is_ipv6_mode ELSE clones[h]

\* Server::clone of handle h (derive(Clone)): the plain fields are copied,
\* the fields behind an Arc are shared
clone_server(h) ==
  /\ Len(clones) < MaxClones
  /\ clones' = Append(clones, handle_is_ipv6_mode(h))
  /\ op' = Op("clone", None, None, "none")
  /\ quiet
  /\ ret' = "ok"
  /\ UNCHANGED <<ops, request_queue, close_nodes, bootstrap_nodes, friends,
                 ping_sender, is_ipv6_mode, close_nodes_is_ipv6_mode,
                 lan_discovery_enabled, tcp_onion_sink, net_crypto, onion_client,
                 api_frame, trace, run_fut>>

\* Server::enable_ipv6_mode called on a handle made by clone()
enable_ipv6_mode_of_clone(h, enable) ==
  /\ counted
  /\ clones' = [clones EXCEPT ![h] = enable]
  /\ close_nodes_is_ipv6_mode' = enable
  /\ op' = Op("enable_ipv6_mode", None, None, "none")
  /\ quiet
  /\ ret' = "ok"
  /\ UNCHANGED <<request_queue, close_nodes, bootstrap_nodes, friends,
                 ping_sender, is_ipv6_mode, lan_discovery_enabled,
                 tcp_onion_sink, net_crypto, onion_client, api_frame>>

\* handles are cloned and configured while the server runs
NextClone ==
  \/ \E h \in 0..Len(clones) : clone_server(h)
  \/ \E enable \in BOOLEAN : enable_ipv6_mode(enable)
  \/ \E h \in 1..Len(clones), enable \in BOOLEAN :
       enable_ipv6_mode_of_clone(h, enable)
  \/ \E pn \in PackedNodes : try_add_to_close_nodes(pn)
  \/ Tick

SpecClone == Init /\ [][NextClone]_vars

\* ------------------------------------------------------------------------
\* The onion client choosing the nodes of its paths
\* ------------------------------------------------------------------------
NUMBER_ONION_PATHS == 6
\* number of nodes the client knows for its paths
MaxPathNodes == 7
\* nodes the client may know
PathNodes == {PackedNode(2, V4(1)), PackedNode(3, V4(1))}
\* values of random_usize()
RandomUsize == 0..MaxPathNodes

\* utils::random_element: r is random_usize()
random_element(slice, r) ==
  IF slice = <<>> THEN None ELSE slice[(r % Len(slice)) + 1]

\* a server next to an onion Client that knows any nodes
InitClient ==
  \E path_nodes \in UNION {[1..n -> PathNodes] : n \in 0..MaxPathNodes} :
    /\ onion_client = Client_new(path_nodes)
    /\ close_nodes = Kbucket_new
    /\ bootstrap_nodes = <<>>
    /\ friends = <<>>
    /\ now = 0
    /\ advances = 0
    /\ ops = 0
    /\ request_queue = {}
    /\ onion_symmetric_key = 0
    /\ onion_symmetric_key_time = 0
    /\ bootstrap_times = 0
    /\ last_nodes_req_time = 0
    /\ ping_sender = <<>>
    /\ is_ipv6_mode = FALSE
    /\ close_nodes_is_ipv6_mode = FALSE
    /\ clones = <<>>
    /\ lan_discovery_enabled = TRUE
    /\ tcp_onion_sink = FALSE
    /\ net_crypto = FALSE
    /\ tx = <<>>
    /\ tcp_tx = <<>>
    /\ ret = "ok"
    /\ op = Op("new", None, None, "none")
    /\ tick_futs = <<>>
    /\ wire = {}
    /\ path = NoPath
    /\ threads = NoThreads
    /\ channel = <<>>
    /\ processed = <<>>
    /\ onion_announce = OnionAnnounce_new
    /\ run_fut = Pending

\* what a step of the client leaves alone
client_frame ==
  <<now, advances, ops, request_queue, close_nodes, bootstrap_nodes, friends,
    onion_vars, random_req_vars, ping_sender, is_ipv6_mode,
    lan_discovery_enabled, tcp_onion_sink, net_crypto, handles, tx, tcp_tx, ret,
    op, tick_futs, views, trace, run_fut>>

\* Client::random_path_nodes up to its loop
random_path_nodes ==
  /\ onion_client.pc = "idle"
  /\ onion_client' =
       IF Len(onion_client.path_nodes) < NUMBER_ONION_PATHS
       THEN [onion_client EXCEPT !.pc = "done", !.ret = "None"]
       ELSE [onion_client EXCEPT !.pc = "loop", !.nodes = <<>>]
  /\ UNCHANGED client_frame

\* one test of the condition of the loop of random_path_nodes and, when it
\* holds, one pass through its body; r is random_usize()
random_path_nodes_loop(r) ==
  /\ onion_client.pc = "loop"
  /\ onion_client' =
       IF Len(onion_client.nodes) < NUMBER_ONION_PATHS
       THEN LET node == random_element(onion_client.path_nodes, r)
            IN IF node \notin SeqToSet(onion_client.path_nodes)
               THEN [onion_client EXCEPT !.nodes = Append(@, node),
                                         !.drawn = r]
               ELSE [onion_client EXCEPT !.drawn = r]
       ELSE [onion_client EXCEPT !.pc = "done", !.ret = "Some"]
  /\ UNCHANGED client_frame

NextClient ==
  \/ random_path_nodes
  \/ \E r \in RandomUsize : random_path_nodes_loop(r)

\* the thread that called random_path_nodes keeps running
SpecClient == InitClient /\ [][NextClient]_vars /\ WF_vars(NextClient)

\* ------------------------------------------------------------------------
\* The close list under try_add
\* ------------------------------------------------------------------------
\* every public key of KeyBits bits
AllKeys == 0..(2 ^ KeyBits - 1)

\* a server whose close list was offered any nodes
InitKb ==
  \E known \in SUBSET {PackedNode(p, V4(1)) : p \in AllKeys} :
    /\ close_nodes = kbucket_of(sort_by_distance(known, pk))
    /\ bootstrap_nodes = <<>>
    /\ friends = <<>>
    /\ now = 0
    /\ advances = 0
    /\ ops = 0
    /\ request_queue = {}
    /\ onion_symmetric_key = 0
    /\ onion_symmetric_key_time = 0
    /\ bootstrap_times = 0
    /\ last_nodes_req_time = 0
    /\ ping_sender = <<>>
    /\ is_ipv6_mode = FALSE
    /\ lan_discovery_enabled = TRUE
    /\ close_nodes_is_ipv6_mode = is_ipv6_mode
    /\ clones = <<>>
    /\ onion_client = Client_new(<<>>)
    /\ tcp_onion_sink = FALSE
    /\ net_crypto = FALSE
    /\ tx = <<>>
    /\ tcp_tx = <<>>
    /\ ret = "ok"
    /\ op = Op("new", None, None, "none")
    /\ tick_futs = <<>>
    /\ wire = {}
    /\ path = NoPath
    /\ threads = NoThreads
    /\ channel = <<>>
    /\ processed = <<>>
    /\ onion_announce = OnionAnnounce_new
    /\ run_fut = Pending

\* nodes with any key are offered to the close list
NextKb ==
  \E p \in AllKeys, a \in SockAddrs : try_add_to_close_nodes(PackedNode(p, a))

SpecKb == InitKb /\ [][NextKb]_vars

\* ------------------------------------------------------------------------
\* Requests answered while the ping sender is offered their sender
\* ------------------------------------------------------------------------
\* what the future of ping_sender.try_add may resolve to: the node is added
\* or declined, or the future is an error
try_add_outcomes(ps, kb, pn) ==
  {PingSender_try_add(ps, kb, pn), [ping_sender |-> ps, fut |-> fut_err]}

\* PingRequest and NodesRequest packets that decrypt, at a server that has a
\* friend and nodes in its buckets
NextJoin ==
  \/ counted /\ \E spk \in PublicKeys \ {pk}, id \in Ids, addr \in SockAddrs :
       \E added \in try_add_outcomes(ping_sender, close_nodes,
                                     PackedNode(spk, addr)) :
         /\ ping_req_answered(spk, id, addr, added)
         /\ UNCHANGED <<request_queue, close_nodes, bootstrap_nodes, friends,
                        handler_frame>>
  \/ counted /\ \E spk \in PublicKeys \ {pk}, search_pk \in PublicKeys,
                   id \in Ids, addr \in SockAddrs :
       \E added \in try_add_outcomes(ping_sender, close_nodes,
                                     PackedNode(spk, addr)) :
         /\ nodes_req_answered(spk, search_pk, id, addr, added)
         /\ UNCHANGED <<request_queue, close_nodes, bootstrap_nodes, friends,
                        handler_frame>>

SpecJoin == InitResp /\ [][NextJoin]_vars

\* ------------------------------------------------------------------------
\* Packets whose payload may fail to decrypt
\* ------------------------------------------------------------------------
\* Server::handle_packet for every kind of packet with an encrypted payload,
\* at a server that has a friend and nodes in its buckets
NextCrypt ==
  \/ counted /\ \E spk \in PublicKeys \ {pk}, r \in 1..MaxId :
       handle_lan_discovery(spk, V4(1), r)
  \/ counted /\ \E spk \in PublicKeys \ {pk}, id \in Ids, dec \in BOOLEAN :
       handle_ping_req(spk, id, V4(1), dec)
  \/ counted /\ \E spk \in PublicKeys \ {pk}, id \in Ids, dec \in BOOLEAN :
       handle_ping_resp(spk, id, V4(1), dec)
  \/ counted /\ \E spk \in PublicKeys \ {pk}, search_pk \in PublicKeys,
                   id \in Ids, dec \in BOOLEAN :
       handle_nodes_req(spk, search_pk, id, V4(1), dec)
  \/ counted /\ \E spk \in PublicKeys \ {pk}, id \in Ids, nodes \in ListedNodes,
                   dec \in BOOLEAN :
       handle_nodes_resp(spk, id, nodes, dec)
  \/ counted /\ \E spk \in PublicKeys \ {pk}, payload \in DhtRequestPayloads,
                   id \in Ids, dec \in BOOLEAN :
       handle_dht_req(pk, spk, payload, id, V4(1), dec)
  \/ counted /\ \E dest \in SockAddrs, dec \in BOOLEAN :
       handle_onion_request_0(V4(1), dest, dec)
  \/ counted /\ \E r \in Returns, dest \in SockAddrs, dec \in BOOLEAN :
       handle_onion_request_1(r, V4(1), dest, dec)
  \/ counted /\ \E r \in Returns, inner \in InnerOnionRequests,
                   dest \in SockAddrs, dec \in BOOLEAN :
       handle_onion_request_2(r, inner, V4(1), dest, dec)

SpecCrypt == InitResp /\ [][NextCrypt]_vars

\* ------------------------------------------------------------------------
\* send_to for every destination
\* ------------------------------------------------------------------------
\* ports of the destinations
Ports == {12345, 33445, 33446}
\* SocketAddr::new(ip, port)
SocketAddr_new(ip, port) == [fam |-> ip.fam, h |-> ip.h, port |-> port]
\* destinations of both families
SendAddrs ==
  {SocketAddr_new(ip, port) : ip \in {V4(1), V4(3), V6(2), V6(4)},
                              port \in Ports}
\* packets handed to send_to
SendKinds == {"PingRequest", "NodesRequest", "NodesResponse", "OnionResponse1"}

\* Server::send_to(addr, packet), polled by its caller
send_packet(addr, kind) ==
  /\ counted
  /\ op' = [Op("send_to", None, None, kind) EXCEPT !.addr = addr]
  /\ resolve(send_to(is_ipv6_mode, addr, Packet(kind, addr, None, None)))
  /\ UNCHANGED <<request_queue, close_nodes, bootstrap_nodes, friends,
                 ping_sender, handler_frame>>

NextSend ==
  \/ \E addr \in SendAddrs, kind \in SendKinds : send_packet(addr, kind)
  \/ \E enable \in BOOLEAN : enable_ipv6_mode(enable)

SpecSend == Init /\ [][NextSend]_vars

\* ------------------------------------------------------------------------
\* Properties
\* ------------------------------------------------------------------------
\* the step handles a packet or a call
handled == ops' = ops + 1

\* the queue holds an id issued to p that has not been consumed nor timed out
outstanding(p, id) ==
  \E e \in request_queue : e.pk = p /\ e.id = id /\ ~rq_expired(e, now)

ResponseKinds == {"PingResponse", "NodesResponse"}

\* C1: a PingResponse or NodesResponse from P with id I passes check_ping_id
\* exactly when an id I issued to P is outstanding (issued, not consumed, not
\* older than PING_TIMEOUT), and a check that passes consumes the id, so every
\* later check of that issuance fails; no key holds an id twice.
C1_CheckedOnce ==
  [][(handled /\ op'.kind \in ResponseKinds /\ op'.chk \in {"true", "false"})
       => /\ (op'.chk = "true") = outstanding(op'.pk, op'.id)
          /\ op'.chk = "true" =>
                \A e \in request_queue' : ~(e.pk = op'.pk /\ e.id = op'.id)
          /\ \A e1, e2 \in request_queue' :
                (e1.pk = e2.pk /\ e1.id = e2.id) => e1 = e2]_vars

\* a response passed the check and its id is gone from the queue
C1_Witness ==
  /\ op.kind = "PingResponse"
  /\ op.chk = "true"
  /\ \A e \in request_queue : ~(e.pk = op.pk /\ e.id = op.id)

\* C2: in every reachable state the close list holds no entry with the
\* server's own public key.
C2_NoOwnKey == pk \notin Kbucket_pks(close_nodes)

\* a NodesResponse with a valid id listed the own key, and the close list
\* took another node
C2_Witness ==
  /\ op.kind = "NodesResponse"
  /\ op.chk = "true"
  /\ pk \in op.listed
  /\ Kbucket_pks(close_nodes) # {}

\* C3: while a NodesResponse is handled, the only key that may enter the
\* close list is the key of the node that sent the response; the nodes it
\* lists stay out of the close list.
C3_OnlyResponders ==
  [][(handled /\ op'.kind = "NodesResponse")
       => (Kbucket_pks(close_nodes') \ Kbucket_pks(close_nodes)) \subseteq {op'.pk}]_vars

\* C4: a PingResponse or NodesResponse whose id is not outstanding for the
\* sender resolves to an error and leaves the close list, the bootstrap
\* bucket and the friends' close nodes as they were.
C4_InvalidIdNoEffect ==
  [][(handled /\ op'.kind \in ResponseKinds /\ op'.chk # "undecryptable"
        /\ ~outstanding(op'.pk, op'.id))
       => /\ ret' = "err"
          /\ close_nodes' = close_nodes
          /\ bootstrap_nodes' = bootstrap_nodes
          /\ friends' = friends]_vars

\* a NodesResponse carried an id other than the one issued to its sender
C4_Witness ==
  /\ op.kind = "NodesResponse"
  /\ op.chk = "false"
  /\ op.id # 0
  /\ \E e \in request_queue : e.pk = op.pk /\ e.id # op.id /\ ~rq_expired(e, now)
  /\ ret = "err"

\* kinds of packet that carry a ping id
IdRequestKinds == {"PingRequest", "NodesRequest", "NatPingRequest"}
IdResponseKinds == {"PingResponse", "NodesResponse", "NatPingResponse"}

\* C5 as stated: a packet of any of the six kinds that carry a ping id
\* resolves to an error when its id is 0, requests included.
C5_ZeroIdAlwaysError ==
  (op.kind \in IdRequestKinds \cup IdResponseKinds /\ op.id = 0) => ret = "err"

\* C5: a PingResponse, NodesResponse or NatPingResponse whose id is 0
\* resolves to an error.
C5_ZeroIdResponseError ==
  (op.kind \in IdResponseKinds /\ op.id = 0) => ret = "err"

\* a friend answered a NAT ping with the id 0
C5_Witness ==
  /\ op.kind = "NatPingResponse"
  /\ op.id = 0
  /\ op.chk = "false"
  /\ \E i \in 1..Len(friends) : friends[i].pk = op.pk

\* C6: a tick resolves to success whatever its sub-operations did.
C6_TickSucceeds == op.kind = "tick" => ret = "ok"

\* C7: after a tick the outbound channel holds the packets of all six
\* sub-operations, whether or not one of them failed.
C7_AllSubOperationsSend ==
  op.kind = "tick" =>
    tx = Concat([i \in 1..Len(tick_futs) |-> tick_futs[i].sends])

\* kinds of packet handle_packet dispatches
PacketKinds ==
  {"PingRequest", "PingResponse", "NodesRequest", "NodesResponse", "DhtRequest",
   "NatPingRequest", "NatPingResponse", "DhtPkAnnounce", "LanDiscovery",
   "BootstrapInfo"} \cup NetCryptoKinds \cup UnhandledKinds

\* C8 as stated: handle_packet resolves to success for every packet.
C8_OnlySuccess == op.kind \in PacketKinds => ret = "ok"

\* C8: handle_packet resolves to an error when the payload does not decrypt,
\* when a response fails the ping-id check, when a PingResponse comes from a
\* node that is not in the close list, when a NatPingResponse comes from no
\* friend, when the answer would go to an IPv6 address in IPv4 mode, and
\* when the kind has no handler.
C8_ErrorsSurface ==
  op.kind \in PacketKinds =>
    /\ op.chk = "undecryptable" => ret = "err"
    /\ (op.kind \in IdResponseKinds /\ op.chk = "false") => ret = "err"
    /\ (op.kind = "PingResponse" /\ ~Kbucket_contains(close_nodes, op.pk))
         => ret = "err"
    /\ op.chk = "nofriend" => ret = "err"
    /\ (is_ipv6(op.addr) /\ ~is_ipv6_mode /\ op.kind # "LanDiscovery"
          /\ op.chk # "undecryptable") => ret = "err"
    /\ op.kind \in UnhandledKinds => ret = "err"

\* a packet of a kind without a handler came in and was reported
C8_Witness ==
  /\ op.kind \in UnhandledKinds
  /\ ret = "err"

OnionResponseKinds == {"OnionResponse3", "OnionResponse2", "OnionResponse1"}

\* the last packet was an onion response whose OnionReturn this server made
\* under the key that preceded the current one
across_rotation ==
  /\ op.kind \in OnionResponseKinds
  /\ op.onion_return \in wire
  /\ op.onion_return.key = onion_symmetric_key - 1

C10_KeyRotates ==
  [][(op'.kind = "tick"
        /\ now - onion_symmetric_key_time >= ONION_REFRESH_KEY_INTERVAL)
       => /\ onion_symmetric_key' # onion_symmetric_key
          /\ onion_symmetric_key_time' = now]_vars

\* a tick rotated the key exactly ONION_REFRESH_KEY_INTERVAL after the
\* previous key was made
C10_Witness ==
  /\ op.kind = "tick"
  /\ onion_symmetric_key = 1
  /\ onion_symmetric_key_time = ONION_REFRESH_KEY_INTERVAL
  /\ now = ONION_REFRESH_KEY_INTERVAL

\* the last packet was an onion response whose OnionReturn this server made
\* under a key that has been rotated out at least twice since
rotated_out_twice ==
  /\ op.kind \in OnionResponseKinds
  /\ op.onion_return \in wire
  /\ onion_symmetric_key - op.onion_return.key >= 2

\* C11: an OnionReturn made under a key that has since been rotated out two
\* or more times is not accepted: the onion-response handler resolves to an
\* error and puts nothing on the UDP channel nor on the TCP onion sink.
C11_StaleReturnRejected ==
  rotated_out_twice => (ret = "err" /\ tx = <<>> /\ tcp_tx = <<>>)

\* a response came back over a return that was made two rotations earlier
C11_Witness ==
  /\ rotated_out_twice
  /\ op.chk = "false"
  /\ ret = "err"

\* the last handler ran at the given stage of the path
path_handled(stage, kind) == path.stage = stage /\ op.kind = kind

LockOrder ==
  <<"onion_symmetric_key", "onion_symmetric_key_time", "close_nodes",
    "bootstrap_nodes", "friends", "request_queue", "ping_sender",
    "onion_announce">>

\* place of a lock in LockOrder, 0 for a lock the order does not name
lock_rank(l) ==
  IF \E i \in 1..Len(LockOrder) : LockOrder[i] = l
  THEN CHOOSE i \in 1..Len(LockOrder) : LockOrder[i] = l
  ELSE 0

reply_kind(packet) ==
  IF packet.kind = "DhtRequest" THEN packet.payload ELSE packet.kind

\* the reply each kind of request is answered with
answer_kind(kind) ==
  CASE kind = "PingRequest" -> "PingResponse"
    [] kind = "NodesRequest" -> "NodesResponse"
    [] kind = "NatPingRequest" -> "NatPingResponse"

\* the replies to peer p on the channel, oldest first
replies_to(p) ==
  LET isreply(x) == x.rpk = p /\ reply_kind(x) \in IdResponseKinds
      rs == SelectSeq(channel, isreply)
  IN [i \in 1..Len(rs) |-> [kind |-> reply_kind(rs[i]), id |-> rs[i].id]]

\* the answers to the requests of peer p that were answered, in the order
\* in which the requests were handled
answered(p) ==
  LET isreq(q) == q.pk = p /\ q.kind \in IdRequestKinds /\ q.ret = "ok"
      qs == SelectSeq(processed, isreq)
  IN [i \in 1..Len(qs) |-> [kind |-> answer_kind(qs[i].kind), id |-> qs[i].id]]

receivable(addr) == is_ipv6(addr) = is_ipv6_mode

known_nodes ==
  Kbucket_pks(close_nodes)
    \cup UNION {{n.pk : n \in SeqToSet(friends[i].close_nodes)} :
                 i \in 1..Len(friends)}
C17_SearchedNodeIncluded ==
  (op.kind = "NodesRequest" /\ op.chk = "none" /\ Len(tx) = 1)
    => \A search_pk \in PublicKeys :
         LET closest == get_closest(close_nodes, search_pk, is_global(op.addr))
             searched == {i \in 1..Len(closest) : closest[i].pk = search_pk}
             listed == tx[1].nodes
         IN (/\ listed = collected_nodes(close_nodes, friends, search_pk,
                                         op.addr, now)
             /\ searched # {})
              => /\ \E i \in 1..Len(listed) : listed[i].pk = search_pk
                 /\ known_nodes = {search_pk}
                      => listed = <<closest[CHOOSE i \in searched : TRUE]>>

\* C18: handle_onion_response_1 delivers by the protocol of the IpPort it
\* recovers from the return.  UDP: the inner response goes to send_to for the
\* recovered address (it is enqueued for that very address whenever the
\* address is of the family of the socket) and nothing goes to the TCP sink.
\* TCP with a sink installed: the pair (inner response, address) is emitted on
\* the TCP sink and nothing on the UDP channel.  TCP without a sink: the
\* handler fails and nothing is emitted.
recovered == OnionReturn_get_payload(op.onion_return, onion_symmetric_key)
C19_SendTo ==
  op.kind = "send_to"
    => LET addr == op.addr
           packet == Packet(op.chk, addr, None, None)
       IN /\ (~is_ipv6_mode /\ is_ipv6(addr)) => (ret = "err" /\ tx = <<>>)
          /\ (is_ipv6_mode /\ is_ipv6(addr)) => (ret = "ok" /\ tx = <<packet>>)
          /\ (is_ipv6_mode /\ is_ipv4(addr))
               => /\ ret = "ok"
                  /\ tx = <<[packet EXCEPT
                               !.addr = [fam |-> "v6", h |-> addr.h + 100,
                                         port |-> addr.port]]>>
\* a packet for an IPv4 destination sent by a server in IPv6 mode
C19_Witness ==
  /\ op.kind = "send_to" /\ is_ipv6_mode /\ is_ipv4(op.addr)
  /\ Len(tx) = 1 /\ is_ipv6(tx[1].addr) /\ tx[1].addr.port = op.addr.port

C21_NatPingResp ==
  [][(ops' = ops + 1 /\ op'.kind = "NatPingResponse")
       => LET i == find_friend(friends, op'.pk)
              accepted ==
                /\ i # 0
                /\ op'.id # 0
                /\ op'.id = friends[i].hole_punch.ping_id
                /\ now - friends[i].hole_punch.last_recv_ping_time
                     < NAT_PING_PUNCHING_INTERVAL
          IN IF accepted
             THEN /\ ret' = "ok"
                  /\ friends' =
                       [friends EXCEPT ![i].hole_punch.is_punching_done = FALSE]
             ELSE /\ ret' = "err"
                  /\ friends' = friends]_vars
\* a friend whose NAT ping was answered in time
C21_Witness ==
  /\ op.kind = "NatPingResponse" /\ op.id # 0 /\ ret = "ok"
  /\ \E i \in 1..Len(friends) :
       /\ friends[i].pk = op.pk
       /\ friends[i].hole_punch.ping_id = op.id
       /\ ~friends[i].hole_punch.is_punching_done

C23_RunNeverSucceeds ==
  /\ [](run_fut.state # "ok")
  /\ \/ <>[](run_fut.state = "err")
     \/ /\ []<>(run_fut.state = "pending" /\ run_fut.woke = 0)
        /\ []<>(run_fut.state = "pending" /\ run_fut.woke = 1)
\* run ended by a tick that resolved to an error
C23_Witness ==
  /\ run_fut.state = "err"
  /\ op.kind = "tick" /\ ret = "err"

waits_for(t, u) ==
  /\ threads[t].todo # <<>>
  /\ Head(threads[t].todo).a = "acq"
  /\ \E i \in 1..Len(threads[u].held) :
       /\ threads[u].held[i].l = Head(threads[t].todo).l
       /\ (Head(threads[t].todo).w \/ threads[u].held[i].w)

\* C25: with handle_packet and the tick on different threads, no deadlock is
\* reachable: there are never two threads each of which waits for a lock that
\* the other one holds.
C25_NoDeadlock ==
  \A t \in Threads : \A u \in Threads \ {t} :
    ~(waits_for(t, u) /\ waits_for(u, t))

RECURSIVE kbucket_try_add_all(_, _, _)
\* Kbucket::try_add of each packed node of a sequence in turn
kbucket_try_add_all(kb, pns, t) ==
  IF pns = <<>> THEN kb
  ELSE kbucket_try_add_all(Kbucket_try_add(kb, Head(pns), t).kb, Tail(pns), t)

C26_NothingInserted ==
  /\ op.kind = "NodesResponse"
  /\ op.chk = "true"
  /\ ret = "ok"
  /\ op.listed # {}
  /\ \A p \in op.listed :
       /\ ~Kbucket_contains(close_nodes, p)
       /\ \A i \in 1..Len(bootstrap_nodes) : bootstrap_nodes[i].pk # p
       /\ \A i \in 1..Len(friends[1].close_nodes) :
            friends[1].close_nodes[i].pk # p

C27_Refreshed ==
  /\ op.kind = "PingResponse"
  /\ op.chk = "true"
  /\ ret = "ok"
  /\ \E n \in SeqToSet(Kbucket_iter(close_nodes)) :
       /\ n.pk = op.pk
       /\ n.last_resp_time_v6 = now
       /\ n.last_resp_time_v4 < now

\* entries older than the timeout are dropped by the next tick unless run
\* has ended
expired_entries_go ==
  (\E e \in request_queue : now - e.time > PING_TIMEOUT)
    ~> \/ \A e \in request_queue : now - e.time <= PING_TIMEOUT
       \/ run_fut.state = "err"

C29_TwoCandidates ==
  /\ op.kind = "tick"
  /\ Len(tick_futs[1].sends) = 2

\* the entry of key p in a close list
close_entry(kb, p) == CHOOSE n \in SeqToSet(Kbucket_iter(kb)) : n.pk = p

C30_NotYetDue ==
  /\ op.kind = "tick"
  /\ tick_futs[2].sends = <<>>
  /\ \E n \in SeqToSet(Kbucket_iter(close_nodes)) :
       now - n.last_ping_req_time = PING_INTERVAL - PING_TIMEOUT

\* C31: whenever a tick sets the last_ping_req_time of a close list entry, a
\* NodesRequest to that entry is among the packets the tick puts on the
\* outbound channel, and whenever it sets the last_send_ping_time of a
\* friend, a NatPingRequest for that friend is among them.
C31_StampImpliesSent ==
  [][op'.kind = "tick"
     => /\ \A n \in SeqToSet(Kbucket_iter(close_nodes)) :
             close_entry(close_nodes', n.pk).last_ping_req_time
               # n.last_ping_req_time
             => \E k \in 1..Len(tx') :
                  /\ tx'[k].kind = "NodesRequest"
                  /\ tx'[k].rpk = n.pk
                  /\ tx'[k].search_pk = pk
        /\ \A i \in 1..Len(friends) :
             friends'[i].hole_punch.last_send_ping_time
               # friends[i].hole_punch.last_send_ping_time
             => \E k \in 1..Len(tx') :
                  /\ tx'[k].kind = "DhtRequest"
                  /\ tx'[k].payload = "NatPingRequest"
                  /\ tx'[k].rpk = friends[i].pk
    ]_vars

\* the close list entries that answered within BAD_NODE_TIMEOUT
good_entries(kb, t) ==
  {n \in SeqToSet(Kbucket_iter(kb)) :
     \/ t - n.last_resp_time_v4 <= BAD_NODE_TIMEOUT
     \/ t - n.last_resp_time_v6 <= BAD_NODE_TIMEOUT}

C32_NotDue ==
  /\ op.kind = "tick"
  /\ bootstrap_times = MAX_BOOTSTRAP_TIMES
  /\ now - last_nodes_req_time = NAT_PING_REQ_INTERVAL
  /\ good_entries(close_nodes, now) # {}
  /\ tick_futs[3] = fut_ok

\* a tick has sent no random NodesRequest because every entry is bad
C32_AllBad ==
  /\ op.kind = "tick"
  /\ bootstrap_times < MAX_BOOTSTRAP_TIMES
  /\ Kbucket_pks(close_nodes) # {}
  /\ good_entries(close_nodes, now) = {}
  /\ tick_futs[3] = fut_ok

\* C33: the bootstrap round counter never exceeds MAX_BOOTSTRAP_TIMES,
\* however many ticks run.
C33_RoundsBounded == bootstrap_times <= MAX_BOOTSTRAP_TIMES

\* the packets among sends that are NAT pings for the friend of key p
nat_pings(sends, p) ==
  SelectSeq(sends, LAMBDA s : s.kind = "DhtRequest" /\ s.rpk = p)

\* what the NAT-ping step owes a friend: to every node of the bucket with a
\* usable address, what send_to makes of a NatPingRequest with the given id
nat_pings_due(friend, id) ==
  LET usable == SelectSeq(friend.close_nodes,
                  LAMBDA n : get_socket_addr(n, is_ipv6_mode) # NoAddr)
      packet == [Packet("DhtRequest", NoAddr, friend.pk, id)
                   EXCEPT !.payload = "NatPingRequest"]
  IN Concat([j \in 1..Len(usable) |->
       send_to(is_ipv6_mode, get_socket_addr(usable[j], is_ipv6_mode),
               packet).sends])

\* C34: in a tick, every friend whose last_send_ping_time is unset or at
\* least NAT_PING_REQ_INTERVAL old has one NatPingRequest, in a DhtRequest
\* addressed to the friend, put on the outbound channel for every node of its
\* bucket with a usable address; the id is the friend's hole_punch.ping_id
\* as the tick leaves it.  No NatPingRequest goes out for the other friends.
C34_NatPings ==
  [][op'.kind = "tick"
     => \A i \in 1..Len(friends) :
          LET hp == friends[i].hole_punch
          IN IF \/ hp.last_send_ping_time = None
                \/ now - hp.last_send_ping_time >= NAT_PING_REQ_INTERVAL
             THEN nat_pings(tx', friends[i].pk) =
                    nat_pings_due(friends[i], friends'[i].hole_punch.ping_id)
             ELSE nat_pings(tx', friends[i].pk) = <<>>
    ]_vars

\* C35: the onion-response handlers look at the shape of the OnionReturn they
\* open.  handle_onion_response_3 and _2 hand a packet to send_to only when
\* the opened return holds an inner OnionReturn: the next response kind, with
\* the payload of the received packet and that inner return, for the recovered
\* address (it is enqueued for that very address whenever the address is of
\* the family of the socket).  handle_onion_response_1 delivers only when the
\* opened return holds no inner one.  On a mismatch the handler fails and
\* nothing is emitted on the UDP channel or the TCP sink.
C35_ReturnShape ==
  LET to == recovered.ip_port.saddr
      next_kind == IF op.kind = "OnionResponse3" THEN "OnionResponse2"
                   ELSE "OnionResponse1"
  IN /\ (op.kind \in {"OnionResponse3", "OnionResponse2"} /\ recovered.ok)
          => IF recovered.inner # <<>>
             THEN LET next_packet == [Packet(next_kind, to, None, None) EXCEPT
                                        !.onion_return = recovered.inner[1],
                                        !.payload = op.payload]
                      sent == send_to(is_ipv6_mode, to, next_packet)
                  IN /\ tx = sent.sends
                     /\ ret = sent.res
                     /\ tcp_tx = <<>>
                     /\ receivable(to) => (ret = "ok" /\ tx = <<next_packet>>)
             ELSE ret = "err" /\ tx = <<>> /\ tcp_tx = <<>>
     /\ (op.kind = "OnionResponse1" /\ recovered.ok /\ recovered.inner # <<>>)
          => (ret = "err" /\ tx = <<>> /\ tcp_tx = <<>>)
     /\ (op.kind = "OnionResponse1" /\ (tx # <<>> \/ tcp_tx # <<>>))
          => (recovered.ok /\ recovered.inner = <<>>)
\* an OnionResponse3 whose return holds an inner one, forwarded as
\* OnionResponse2
C35_Witness ==
  /\ op.kind = "OnionResponse3" /\ recovered.ok /\ recovered.inner # <<>>
  /\ ret = "ok" /\ Len(tx) = 1
  /\ tx[1].kind = "OnionResponse2"
  /\ tx[1].onion_return = recovered.inner[1]
  /\ tx[1].payload = op.payload
  /\ tx[1].addr = recovered.ip_port.saddr
\* an OnionResponse2 whose return holds no inner one is refused
C35_NoInner ==
  /\ op.kind = "OnionResponse2" /\ recovered.ok /\ recovered.inner = <<>>
  /\ ret = "err" /\ tx = <<>>
\* an OnionResponse1 whose return holds an inner one is refused
C35_ExtraInner ==
  /\ op.kind = "OnionResponse1" /\ recovered.ok /\ recovered.inner # <<>>
  /\ ret = "err" /\ tx = <<>> /\ tcp_tx = <<>>

\* the kinds of packet whose payload the server decrypts
EncryptedKinds ==
  {"PingRequest", "PingResponse", "NodesRequest", "NodesResponse",
   "DhtRequest", "OnionRequest0", "OnionRequest1", "OnionRequest2"}

\* C36: for every kind of packet with an encrypted payload (PingRequest,
\* PingResponse, NodesRequest, NodesResponse, DhtRequest addressed to this
\* node, OnionRequest0/1/2), a payload that does not decrypt makes the
\* handler fail, puts no packet on the UDP channel or the TCP sink, and
\* leaves the request queue, the close list, the bootstrap bucket, the
\* friends and the ping sender as they were.
C36_UndecryptableRejected ==
  [][(ops' = ops + 1 /\ op'.chk = "undecryptable")
       => /\ op'.kind \in EncryptedKinds
          /\ ret' = "err"
          /\ tx' = <<>>
          /\ tcp_tx' = <<>>
          /\ UNCHANGED <<request_queue, close_nodes, bootstrap_nodes, friends,
                         ping_sender, wire, onion_announce>>]_vars
\* an undecryptable PingResponse at a server whose request queue, buckets,
\* friend and ping sender are all non-empty
C36_Witness ==
  /\ op.kind = "PingResponse" /\ op.chk = "undecryptable"
  /\ ret = "err" /\ tx = <<>>
  /\ ping_sender # <<>>
  /\ close_nodes # Kbucket_new
  /\ bootstrap_nodes # <<>>
  /\ friends # <<>>
\* each kind of packet arrives with a payload that does not decrypt
C36_QueueKept ==
  /\ op.kind = "NodesResponse" /\ op.chk = "undecryptable"
  /\ request_queue # {}
C36_OnionRefused ==
  /\ op.kind = "OnionRequest2" /\ op.chk = "undecryptable"
  /\ wire # {}

\* C37: handle_ping_req and handle_nodes_req put their reply (a PingResponse,
\* a NodesResponse with the id of the request, encrypted for the sender) on
\* the channel for the source address whatever ping_sender.try_add did with
\* the sender, and resolve to what the send of the reply resolves to.
C37_ReplyWhateverTryAdd ==
  [][(ops' = ops + 1 /\ op'.kind \in {"PingRequest", "NodesRequest"}
        /\ op'.chk = "none")
       => LET kind == IF op'.kind = "PingRequest" THEN "PingResponse"
                      ELSE "NodesResponse"
              sent == send_to(is_ipv6_mode, op'.addr,
                              Packet(kind, op'.addr, op'.pk, op'.id))
          IN /\ ret' = sent.res
             /\ Len(tx') = Len(sent.sends)
             /\ \A i \in 1..Len(tx') :
                  /\ tx'[i].kind = kind
                  /\ tx'[i].addr = sent.sends[i].addr
                  /\ tx'[i].rpk = op'.pk
                  /\ tx'[i].id = op'.id]_vars

\* the largest XOR distance to the owner's key among the entries of a bucket
max_distance(nodes) ==
  IF nodes = <<>> THEN 0
  ELSE LET far == CHOOSE i \in 1..Len(nodes) :
                    \A j \in 1..Len(nodes) :
                      xor(pk, nodes[j].pk) <= xor(pk, nodes[i].pk)
       IN xor(pk, nodes[far].pk)

\* C38: for the owner's key and any sequence of try_add on the close list:
\* adding a key that is already stored changes nothing but the address of its
\* entry; no bucket ever holds two entries with the same key, nor more
\* entries than its capacity; and once a bucket is full, try_add never
\* increases the largest XOR distance to the owner among its entries.
C38_CloseListMonotone ==
  [][(ops' = ops + 1 /\ op'.kind = "try_add_to_close_nodes")
       => /\ Kbucket_contains(close_nodes, op'.pk)
               => /\ ret' = "true"
                  /\ \A i \in DOMAIN close_nodes :
                       /\ Len(close_nodes'[i]) = Len(close_nodes[i])
                       /\ \A j \in 1..Len(close_nodes[i]) :
                            LET old == close_nodes[i][j]
                                new == close_nodes'[i][j]
                            IN IF old.pk # op'.pk THEN new = old
                               ELSE /\ [new EXCEPT !.saddr_v4 = old.saddr_v4,
                                                    !.saddr_v6 = old.saddr_v6]
                                         = old
                                    /\ \E a \in SockAddrs :
                                         new = DhtNode_update(old,
                                                 PackedNode(op'.pk, a))
          /\ \A i \in DOMAIN close_nodes' :
               /\ Len(close_nodes'[i]) <= BucketCap
               /\ \A j, k \in 1..Len(close_nodes'[i]) :
                    close_nodes'[i][j].pk = close_nodes'[i][k].pk => j = k
               /\ Len(close_nodes[i]) = BucketCap
                    => max_distance(close_nodes'[i]) <= max_distance(close_nodes[i])]_vars
\* a node too far for its full bucket was offered and refused
C38_Witness ==
  /\ op.kind = "try_add_to_close_nodes" /\ ret = "false"
  /\ op.pk # pk
  /\ ~Kbucket_contains(close_nodes, op.pk)
  /\ Len(close_nodes[kbucket_index(pk, op.pk)]) = BucketCap
  /\ \A n \in SeqToSet(close_nodes[kbucket_index(pk, op.pk)]) :
       closer(pk, n.pk, op.pk)
\* a stored node offered again with an address of the other family
C38_AddressLearnt ==
  /\ op.kind = "try_add_to_close_nodes" /\ ret = "true"
  /\ Kbucket_contains(close_nodes, op.pk)
  /\ Kbucket_get_node(close_nodes, op.pk).saddr_v4 # NoAddr
  /\ Kbucket_get_node(close_nodes, op.pk).saddr_v6 # NoAddr

\* C39: every handle of a server (the original and its clones) has the
\* is_ipv6_mode of the close list they share, whatever calls of
\* enable_ipv6_mode were made on whatever handle.
C39_HandlesAgree ==
  \A h \in 0..Len(clones) : handle_is_ipv6_mode(h) = close_nodes_is_ipv6_mode

\* C40: Client::random_path_nodes terminates in every state of the client:
\* it returns None when path_nodes has fewer than NUMBER_ONION_PATHS entries,
\* and otherwise Some list of exactly NUMBER_ONION_PATHS nodes, each of them
\* one of path_nodes.
C40_RandomPathNodes ==
  /\ <>(onion_client.pc = "done")
  /\ [](onion_client.pc = "done"
         => IF Len(onion_client.path_nodes) < NUMBER_ONION_PATHS
            THEN onion_client.ret = "None"
            ELSE /\ onion_client.ret = "Some"
                 /\ Len(onion_client.nodes) = NUMBER_ONION_PATHS
                 /\ SeqToSet(onion_client.nodes)
                      \subseteq SeqToSet(onion_client.path_nodes))

====
